---- MODULE Spec2Model ----
(***************************************************************************)
(* A model of the RSVP playback engine of Tempo (class RSVPEngine, the     *)
(* second engine of src/unnamed/part_002, lines 360-1136).                 *)
(*                                                                         *)
(* The engine is single-threaded: every step is one host call or one timer *)
(* callback run to completion.  Each method of the class is an operator    *)
(* from an engine record to the engine record after the call; the actions  *)
(* apply one method to the current state.  Besides the fields of the       *)
(* object the state holds the timers that are really pending in the host   *)
(* (`timers`).  An engine record carries three more fields: `emitted`, the *)
(* notifications the call has delivered to the registered callbacks so     *)
(* far, in order; `started`, the timers the call has set so far; and       *)
(* `returned`, the value the call returns.  They are the trace of one      *)
(* call, not state: every call starts with the first two empty and the     *)
(* third "undefined".                                                      *)
(*                                                                         *)
(* Indices are 0-based as in the source; items[i] of the source is         *)
(* items[i + 1] here.  A text or a word is a sequence of one-character     *)
(* strings.  The handle null is 0; timer handles are positive.             *)
(***************************************************************************)
EXTENDS Integers, Sequences, FiniteSets, TLC

VARIABLES
    words,                    \* this.words
    items,                    \* this.items
    sentenceStarts,           \* this.sentenceStarts
    paragraphEnds,            \* this.paragraphEnds
    currentIndex,             \* this.currentIndex
    isPlaying,                \* this.isPlaying
    wpm,                      \* this.wpm
    timeoutId,                \* this.timeoutId (0 = null; may be stale)
    easeInCount,              \* this.easeInCount
    specialCountdown,         \* this.specialCountdown
    specialPaused,            \* this.specialPaused
    countdownIntervalId,      \* this.countdownIntervalId (0 = null)
    isShowingSpecialContent,  \* this.isShowingSpecialContent
    backPressRecent,          \* Date.now() - this.lastBackPressTime < 800
    lastSkipToSentenceIdx,    \* this.lastSkipToSentenceIdx
    timers,                   \* the host's pending setTimeout/setInterval timers
    hostIdle                  \* the host makes no further call of the engine

vars == <<words, items, sentenceStarts, paragraphEnds, currentIndex, isPlaying,
          wpm, timeoutId, easeInCount, specialCountdown, specialPaused,
          countdownIntervalId, isShowingSpecialContent, backPressRecent,
          lastSkipToSentenceIdx, timers, hostIdle>>

----------------------------------------------------------------------------
(* Bounds of the model *)

\* No call or callback is followed that leaves easeInCount above this.
MaxEase == 6

\* No call or callback is run while more than this many timers of one kind
\* (word-advance, countdown) are pending.
MaxPending == 1

\* The longest word given to the ORP calculator.
MaxWordLen == 15

----------------------------------------------------------------------------
(* Program constants *)

SPECIAL_CONTENT_DURATION == 5

\* Delay of the paragraph-break timer, in ms.
BREAK_PAUSE_MS == 500

\* Period of the countdown interval, in ms.
COUNTDOWN_PERIOD_MS == 1000

DEFAULT_WPM == 250

MIN_WPM == 100

MAX_WPM == 1000

\* Timer delays are kept in 1/100 ms, so that the quotients of getInterval keep
\* two decimals.
Ms(n) == n * 100

NULL == 0

\* The argument of a countdown-tick notification that hides the badge (null).
HIDDEN == 0 - 1

Min(a, b) == IF a < b THEN a ELSE b

Max(a, b) == IF a > b THEN a ELSE b

SetMax(S) == CHOOSE x \in S : \A y \in S : y <= x

SetMin(S) == CHOOSE x \in S : \A y \in S : x <= y

----------------------------------------------------------------------------
(* Content items *)

Word(v) == [type |-> "word", value |-> v]

ParagraphBreak == [type |-> "paragraph-break", value |-> <<>>]

Special == [type |-> "special", value |-> <<>>]

\* items[i] for an index outside the array is undefined.
Undefined == [type |-> "undefined", value |-> <<>>]

ItemAt(its, i) == IF i >= 0 /\ i < Len(its) THEN its[i + 1] ELSE Undefined

\* /[.!?]$/.test(word)
EndsSentence(w) == Len(w) > 0 /\ w[Len(w)] \in {".", "!", "?"}

----------------------------------------------------------------------------
(* setText's tokenizer *)

\* The characters U+2014 and U+2013, each one element of a text.
EmDash == "<em-dash>"

EnDash == "<en-dash>"

\* \s of the regular expressions, over the characters the texts use.
IsSpace(c) == c \in {" ", "\n"}

RECURSIVE TrimLeft(_)
TrimLeft(t) ==
    IF t # <<>> /\ IsSpace(Head(t)) THEN TrimLeft(Tail(t)) ELSE t

RECURSIVE TrimRight(_)
TrimRight(t) ==
    IF t # <<>> /\ IsSpace(t[Len(t)]) THEN TrimRight(SubSeq(t, 1, Len(t) - 1)) ELSE t

\* String.prototype.trim
Trim(t) == TrimRight(TrimLeft(t))

\* The last index of a match of /\n\s*\n/ that starts at i, or 0 when none does:
\* \s* is greedy, so the match runs to the last newline of the whitespace run.
ParagraphSepEnd(t, i) ==
    IF t[i] # "\n" THEN 0
    ELSE LET ends == {j \in (i + 1)..Len(t) :
                         /\ t[j] = "\n"
                         /\ \A k \in (i + 1)..(j - 1) : IsSpace(t[k])}
         IN IF ends = {} THEN 0 ELSE SetMax(ends)

\* text.split(/\n\s*\n/), scanning from index i with the piece cur open
RECURSIVE SplitParagraphsFrom(_, _, _)
SplitParagraphsFrom(t, i, cur) ==
    IF i > Len(t) THEN <<cur>>
    ELSE IF ParagraphSepEnd(t, i) > 0
         THEN <<cur>> \o SplitParagraphsFrom(t, ParagraphSepEnd(t, i) + 1, <<>>)
         ELSE SplitParagraphsFrom(t, i + 1, Append(cur, t[i]))

SplitParagraphs(t) == SplitParagraphsFrom(t, 1, <<>>)

\* .replace(/(EmDash|EnDash)/g, '$1 ')
RECURSIVE SpaceAfterDashes(_)
SpaceAfterDashes(t) ==
    IF t = <<>> THEN <<>>
    ELSE IF Head(t) \in {EmDash, EnDash}
         THEN <<Head(t), " ">> \o SpaceAfterDashes(Tail(t))
         ELSE <<Head(t)>> \o SpaceAfterDashes(Tail(t))

\* .replace(/--/g, 'EmDash ')
RECURSIVE DoubleHyphenToDash(_)
DoubleHyphenToDash(t) ==
    IF t = <<>> THEN <<>>
    ELSE IF Len(t) >= 2 /\ t[1] = "-" /\ t[2] = "-"
         THEN <<EmDash, " ">> \o DoubleHyphenToDash(SubSeq(t, 3, Len(t)))
         ELSE <<Head(t)>> \o DoubleHyphenToDash(Tail(t))

\* .replace(/-/g, ' ')
RECURSIVE HyphenToSpace(_)
HyphenToSpace(t) ==
    IF t = <<>> THEN <<>>
    ELSE <<IF Head(t) = "-" THEN " " ELSE Head(t)>> \o HyphenToSpace(Tail(t))

\* A normalization that leaves single hyphens in the text: the fault C30
\* tells from processedText().
processedTextKeepingHyphens(paragraph) ==
    DoubleHyphenToDash(SpaceAfterDashes(paragraph))

processedText(paragraph) ==
    HyphenToSpace(DoubleHyphenToDash(SpaceAfterDashes(paragraph)))

\* .split(/\s+/).filter(w => w.length > 0), with the word cur open
RECURSIVE SplitWordsFrom(_, _)
SplitWordsFrom(t, cur) ==
    IF t = <<>> THEN (IF cur = <<>> THEN <<>> ELSE <<cur>>)
    ELSE IF IsSpace(Head(t))
         THEN (IF cur = <<>> THEN <<>> ELSE <<cur>>) \o SplitWordsFrom(Tail(t), <<>>)
         ELSE SplitWordsFrom(Tail(t), Append(cur, Head(t)))

rawWords(paragraph) == SplitWordsFrom(processedText(paragraph), <<>>)

\* The inner loop of setText over rawWords, from word i on.  acc holds words,
\* items, sentenceStarts and paragraphEnds; wordIndex is Len(acc.words), which
\* the loop increments with every push to words.
RECURSIVE tokenizeWords(_, _, _, _)
tokenizeWords(acc, raw, i, moreParagraphs) ==
    IF i > Len(raw) THEN acc
    ELSE LET word == raw[i]
             wordIndex == Len(acc.words)
             starts == IF EndsSentence(word) /\ (i < Len(raw) \/ moreParagraphs)
                       THEN Append(acc.sentenceStarts, wordIndex + 1)
                       ELSE acc.sentenceStarts
         IN tokenizeWords([acc EXCEPT !.words = Append(@, word),
                                      !.items = Append(@, Word(word)),
                                      !.sentenceStarts = starts],
                          raw, i + 1, moreParagraphs)

\* The outer loop of setText over paragraphs, from paragraph p on.
RECURSIVE tokenizeParagraphs(_, _, _)
tokenizeParagraphs(acc, paragraphs, p) ==
    IF p > Len(paragraphs) THEN acc
    ELSE LET paragraph == Trim(paragraphs[p])
             more == p < Len(paragraphs)
         IN IF paragraph = <<>> THEN tokenizeParagraphs(acc, paragraphs, p + 1)
            ELSE LET a1 == tokenizeWords(acc, rawWords(paragraph), 1, more)
                     a2 == IF more /\ Len(a1.words) > 0
                           THEN [a1 EXCEPT !.paragraphEnds = Append(@, Len(a1.items) - 1),
                                           !.items = Append(@, ParagraphBreak)]
                           ELSE a1
                 IN tokenizeParagraphs(a2, paragraphs, p + 1)

tokenize(text) ==
    tokenizeParagraphs([words |-> <<>>, items |-> <<>>,
                        sentenceStarts |-> <<0>>, paragraphEnds |-> <<>>],
                       SplitParagraphs(Trim(text)), 1)

----------------------------------------------------------------------------
(* The engine record: the fields of the object, the pending timers, and the *)
(* trace of the call being run                                              *)

\* The current state, as a call finds it: nothing delivered, no timer set yet.
State ==
    [words |-> words, items |-> items, sentenceStarts |-> sentenceStarts,
     paragraphEnds |-> paragraphEnds, currentIndex |-> currentIndex,
     isPlaying |-> isPlaying, wpm |-> wpm, timeoutId |-> timeoutId,
     easeInCount |-> easeInCount, specialCountdown |-> specialCountdown,
     specialPaused |-> specialPaused, countdownIntervalId |-> countdownIntervalId,
     isShowingSpecialContent |-> isShowingSpecialContent,
     backPressRecent |-> backPressRecent,
     lastSkipToSentenceIdx |-> lastSkipToSentenceIdx,
     timers |-> timers, emitted |-> <<>>, started |-> <<>>,
     returned |-> "undefined"]

\* The fields the constructor sets before it calls setText(DEFAULT_TEXT).
constructor ==
    [words |-> <<>>, items |-> <<>>, sentenceStarts |-> <<>>, paragraphEnds |-> <<>>,
     currentIndex |-> 0, isPlaying |-> FALSE, wpm |-> DEFAULT_WPM, timeoutId |-> NULL,
     easeInCount |-> 0, specialCountdown |-> 0, specialPaused |-> FALSE,
     countdownIntervalId |-> NULL, isShowingSpecialContent |-> FALSE,
     backPressRecent |-> FALSE, lastSkipToSentenceIdx |-> 0 - 1,
     timers |-> {}, emitted |-> <<>>, started |-> <<>>,
     returned |-> "undefined"]

----------------------------------------------------------------------------
(* The host's timers.  A pending timer is [id, kind, delay]; kind names the  *)
(* callback: "advance" (scheduleNext), "break" (the 500ms callback of        *)
(* advance) or "countdown" (the interval of showSpecialContent).             *)

TimerIds(s) == {t.id : t \in s.timers}

\* A fresh handle: the host never hands out a handle that is still pending, and
\* a handle the engine still holds is never reused.
FreshId(s) ==
    SetMin({n \in 1..(Cardinality(s.timers) + 3) :
               n \notin TimerIds(s) \cup {s.timeoutId, s.countdownIntervalId}})

\* setTimeout(callback, delay) / setInterval(callback, delay): the state with
\* the timer pending; its handle is FreshId(s).
setTimer(s, kind, delay) ==
    [s EXCEPT !.timers = @ \cup {[id |-> FreshId(s), kind |-> kind, delay |-> delay]},
              !.started = Append(@, [kind |-> kind, delay |-> delay])]

\* clearTimeout(id) / clearInterval(id): a no-op for a handle no longer pending.
clearTimer(s, id) == [s EXCEPT !.timers = {t \in @ : t.id # id}]

PendingWordTimers(s) == {t \in s.timers : t.kind \in {"advance", "break"}}

PendingCountdownTimers(s) == {t \in s.timers : t.kind = "countdown"}

----------------------------------------------------------------------------
(* Notifications.  Every callback is registered (app.js registers all seven *)
(* before any call) and none of them calls back into the engine.            *)

Ev(name, arg) == [name |-> name, arg |-> arg]

Emit(s, name, arg) == [s EXCEPT !.emitted = Append(@, Ev(name, arg))]

\* The payloads of word-change and progress are getCurrentWord(), getContext()
\* and getProgress() of the state at the time of the call; the log keeps the
\* name only.
notifyWordChange(s) == Emit(s, "word-change", 0)

notifyStateChange(s) == Emit(s, "state-change", IF s.isPlaying THEN 1 ELSE 0)

notifyProgress(s) == Emit(s, "progress", 0)

\* The arguments of the notifications `name` a call ending in r delivered.
Emitted(r, name) ==
    LET idx == {i \in 1..Len(r.emitted) : r.emitted[i].name = name}
        RECURSIVE pick(_)
        pick(i) == IF i > Len(r.emitted) THEN <<>>
                   ELSE IF i \in idx THEN <<r.emitted[i].arg>> \o pick(i + 1)
                   ELSE pick(i + 1)
    IN pick(1)

----------------------------------------------------------------------------
(* Playback *)

\* The divisors of getInterval's easeFactors [0.5, 0.6, 0.7, 0.85, 1.0], times 100.
easeFactors == <<50, 60, 70, 85, 100>>

\* getInterval(): (60000 / wpm) / factor while easeInCount < 5, 60000 / wpm
\* after; in 1/100 ms, truncated.
\* A getInterval() without the ease-in ramp: the fault C15 tells from
\* getInterval().
getIntervalWithoutEase(s) == (60000 * 100) \div s.wpm

\* A getInterval() whose ramp lasts one word longer: the fault C17 tells
\* from getInterval().
getIntervalRampingSixWords(s) ==
    IF s.easeInCount < 5
    THEN (60000 * 100 * 100) \div (s.wpm * easeFactors[s.easeInCount + 1])
    ELSE IF s.easeInCount = 5
    THEN (60000 * 100 * 100) \div (s.wpm * 85)
    ELSE (60000 * 100) \div s.wpm

getInterval(s) ==
    IF s.easeInCount < 5
    THEN (60000 * 100 * 100) \div (s.wpm * easeFactors[s.easeInCount + 1])
    ELSE (60000 * 100) \div s.wpm

\* A setWPM() that stores its argument as it is: the fault C25 tells from
\* setWPM().
setWPMUnclamped(s, w) == [s EXCEPT !.wpm = w]

setWPM(s, w) == [s EXCEPT !.wpm = Max(MIN_WPM, Min(MAX_WPM, w))]

\* A pause() that stops the countdown without signalling its badge hidden:
\* the fault C5 tells from pause().
pauseFreezingBadge(s) ==
    IF ~s.isPlaying THEN s
    ELSE LET s1 == IF s.countdownIntervalId # NULL
                   THEN [clearTimer(s, s.countdownIntervalId)
                            EXCEPT !.countdownIntervalId = NULL,
                                   !.specialPaused = TRUE]
                   ELSE s
             s2 == [s1 EXCEPT !.isPlaying = FALSE]
             s3 == IF s2.timeoutId # NULL
                   THEN [clearTimer(s2, s2.timeoutId) EXCEPT !.timeoutId = NULL]
                   ELSE s2
         IN notifyStateChange(s3)

\* A pause() that signals state-change also when the engine is not playing:
\* the fault C24 tells from pause().
pauseSignallingAlways(s) ==
    IF ~s.isPlaying THEN notifyStateChange(s)
    ELSE LET s1 == IF s.countdownIntervalId # NULL
                   THEN Emit([clearTimer(s, s.countdownIntervalId)
                                 EXCEPT !.countdownIntervalId = NULL,
                                        !.specialPaused = TRUE],
                             "special-countdown-tick", HIDDEN)
                   ELSE s
             s2 == [s1 EXCEPT !.isPlaying = FALSE]
             s3 == IF s2.timeoutId # NULL
                   THEN [clearTimer(s2, s2.timeoutId) EXCEPT !.timeoutId = NULL]
                   ELSE s2
         IN notifyStateChange(s3)

pause(s) ==
    IF ~s.isPlaying THEN s
    ELSE LET s1 == IF s.countdownIntervalId # NULL
                   THEN Emit([clearTimer(s, s.countdownIntervalId)
                                 EXCEPT !.countdownIntervalId = NULL,
                                        !.specialPaused = TRUE],
                             "special-countdown-tick", HIDDEN)
                   ELSE s
             s2 == [s1 EXCEPT !.isPlaying = FALSE]
             s3 == IF s2.timeoutId # NULL
                   THEN [clearTimer(s2, s2.timeoutId) EXCEPT !.timeoutId = NULL]
                   ELSE s2
         IN notifyStateChange(s3)

clearSpecialContent(s) ==
    LET s1 == IF s.countdownIntervalId # NULL
              THEN [clearTimer(s, s.countdownIntervalId)
                       EXCEPT !.countdownIntervalId = NULL]
              ELSE s
    IN Emit([s1 EXCEPT !.specialCountdown = 0,
                       !.specialPaused = FALSE,
                       !.isShowingSpecialContent = FALSE],
            "special-content-end", 0)

stop(s) ==
    LET s1 == clearSpecialContent(pause(s))
    IN notifyProgress(notifyWordChange([s1 EXCEPT !.currentIndex = 0,
                                                  !.easeInCount = 0]))

scheduleNext(s) ==
    IF ~s.isPlaying THEN s
    ELSE [setTimer(s, "advance", getInterval(s)) EXCEPT !.timeoutId = FreshId(s)]

showSpecialContent(s) ==
    LET s1 == IF s.timeoutId # NULL
              THEN [clearTimer(s, s.timeoutId) EXCEPT !.timeoutId = NULL]
              ELSE s
        s2 == IF s1.countdownIntervalId # NULL
              THEN [clearTimer(s1, s1.countdownIntervalId)
                       EXCEPT !.countdownIntervalId = NULL]
              ELSE s1
        s3 == Emit([s2 EXCEPT !.specialCountdown = SPECIAL_CONTENT_DURATION,
                              !.specialPaused = FALSE,
                              !.isShowingSpecialContent = TRUE],
                   "special-content", SPECIAL_CONTENT_DURATION)
    IN [setTimer(s3, "countdown", Ms(COUNTDOWN_PERIOD_MS))
           EXCEPT !.countdownIntervalId = FreshId(s3)]

\* The index advanceToNext's while loop stops at, started at i.
RECURSIVE SkipBreaksForward(_, _)
SkipBreaksForward(its, i) ==
    IF i < Len(its) /\ ItemAt(its, i).type = "paragraph-break"
    THEN SkipBreaksForward(its, i + 1)
    ELSE i

RECURSIVE processCurrentItem(_)
RECURSIVE advanceToNext(_)

processCurrentItem(s) ==
    LET item == ItemAt(s.items, s.currentIndex)
    IN CASE item.type = "undefined" -> pause(s)
         [] item.type = "special" -> showSpecialContent(s)
         [] item.type = "word" ->
               scheduleNext(notifyProgress(notifyWordChange(
                   [s EXCEPT !.easeInCount = @ + 1])))
         [] item.type = "paragraph-break" -> advanceToNext(s)

advanceToNext(s) ==
    LET s1 == [s EXCEPT !.currentIndex = SkipBreaksForward(s.items, @ + 1)]
    IN IF s1.currentIndex < Len(s1.items)
       THEN processCurrentItem(s1)
       ELSE pause(s1)

\* An advance() that crosses a ParagraphBreak as advanceToNext does, with no
\* signal and no 500ms timer: the fault C9 tells from advance().
advanceThroughBreak(s) ==
    IF s.currentIndex < Len(s.items) - 1
    THEN processCurrentItem([s EXCEPT !.currentIndex = @ + 1])
    ELSE pause(s)

\* An advance() that starts over at the first item when it is at the last:
\* the fault C33 tells from advance().
advanceStartingOver(s) ==
    IF s.currentIndex < Len(s.items) - 1
    THEN LET s1 == [s EXCEPT !.currentIndex = @ + 1]
         IN IF ItemAt(s1.items, s1.currentIndex).type = "paragraph-break"
            THEN LET s2 == Emit(s1, "paragraph-break", 0)
                 IN [setTimer(s2, "break", Ms(BREAK_PAUSE_MS))
                        EXCEPT !.timeoutId = FreshId(s2)]
            ELSE processCurrentItem(s1)
    ELSE processCurrentItem([s EXCEPT !.currentIndex = 0])

\* The callback of scheduleNext's timer.
advance(s) ==
    IF s.currentIndex < Len(s.items) - 1
    THEN LET s1 == [s EXCEPT !.currentIndex = @ + 1]
         IN IF ItemAt(s1.items, s1.currentIndex).type = "paragraph-break"
            THEN LET s2 == Emit(s1, "paragraph-break", 0)
                 IN [setTimer(s2, "break", Ms(BREAK_PAUSE_MS))
                        EXCEPT !.timeoutId = FreshId(s2)]
            ELSE processCurrentItem(s1)
    ELSE pause(s)

\* The callback of the 500ms timer advance() sets at a paragraph break.
breakCallback(s) ==
    LET s1 == [s EXCEPT !.currentIndex = @ + 1]
    IN IF s1.currentIndex < Len(s1.items)
       THEN processCurrentItem(s1)
       ELSE pause(s1)

endSpecialContent(s) ==
    LET s1 == IF s.countdownIntervalId # NULL
              THEN [clearTimer(s, s.countdownIntervalId)
                       EXCEPT !.countdownIntervalId = NULL]
              ELSE s
        s2 == Emit([s1 EXCEPT !.isShowingSpecialContent = FALSE],
                   "special-content-end", 0)
    IN advanceToNext(notifyProgress(s2))

\* The callback of showSpecialContent's interval.
countdownCallback(s) ==
    LET s1 == [s EXCEPT !.specialCountdown = @ - 1]
        s2 == Emit(s1, "special-countdown-tick", s1.specialCountdown)
    IN IF s2.specialCountdown <= 0 THEN endSpecialContent(s2) ELSE s2

\* A skipSpecialContent() that looks at the countdown interval instead of
\* isShowingSpecialContent, and so does nothing for a held Special: the fault
\* C14 tells from skipSpecialContent().
skipRunningCountdownOnly(s) ==
    IF s.countdownIntervalId # NULL
    THEN [endSpecialContent(s) EXCEPT !.returned = "true"]
    ELSE [s EXCEPT !.returned = "false"]

skipSpecialContent(s) ==
    IF s.isShowingSpecialContent
    THEN [endSpecialContent(s) EXCEPT !.returned = "true"]
    ELSE [s EXCEPT !.returned = "false"]

\* A play() that does not wrap from the last item to index 0: the fault C4
\* tells from play().
playWithoutWrap(s) ==
    IF s.isPlaying THEN s
    ELSE IF s.specialPaused
    THEN LET s1 == Emit([s EXCEPT !.specialPaused = FALSE,
                                  !.isShowingSpecialContent = FALSE],
                        "special-content-end", 0)
         IN advanceToNext(notifyStateChange([s1 EXCEPT !.isPlaying = TRUE]))
    ELSE LET s2 == notifyStateChange([s EXCEPT !.isPlaying = TRUE,
                                               !.easeInCount = 0])
         IN IF ItemAt(s2.items, s2.currentIndex).type = "special"
            THEN showSpecialContent(s2)
            ELSE scheduleNext(s2)

\* A play() that resumes a held Special by running its countdown again: the
\* fault C6 tells from play().
playRestartingCountdown(s) ==
    IF s.isPlaying THEN s
    ELSE IF s.specialPaused
    THEN showSpecialContent(notifyStateChange([s EXCEPT !.isPlaying = TRUE]))
    ELSE LET s1 == IF s.currentIndex >= Len(s.items) - 1
                   THEN notifyProgress(notifyWordChange([s EXCEPT !.currentIndex = 0]))
                   ELSE s
             s2 == notifyStateChange([s1 EXCEPT !.isPlaying = TRUE,
                                                !.easeInCount = 0])
         IN IF ItemAt(s2.items, s2.currentIndex).type = "special"
            THEN showSpecialContent(s2)
            ELSE scheduleNext(s2)

play(s) ==
    IF s.isPlaying THEN s
    ELSE IF s.specialPaused
    THEN LET s1 == Emit([s EXCEPT !.specialPaused = FALSE,
                                  !.isShowingSpecialContent = FALSE],
                        "special-content-end", 0)
         IN advanceToNext(notifyStateChange([s1 EXCEPT !.isPlaying = TRUE]))
    ELSE LET s1 == IF s.currentIndex >= Len(s.items) - 1
                   THEN notifyProgress(notifyWordChange([s EXCEPT !.currentIndex = 0]))
                   ELSE s
             s2 == notifyStateChange([s1 EXCEPT !.isPlaying = TRUE,
                                                !.easeInCount = 0])
         IN IF ItemAt(s2.items, s2.currentIndex).type = "special"
            THEN showSpecialContent(s2)
            ELSE scheduleNext(s2)

toggle(s) == IF s.isPlaying THEN pause(s) ELSE play(s)

\* A jumpToIndex() that takes length(items) for a valid index: the fault C13
\* tells from jumpToIndex().
jumpToIndexUpToLength(s, index) ==
    IF index >= 0 /\ index <= Len(s.items)
    THEN notifyProgress(notifyWordChange([s EXCEPT !.currentIndex = index,
                                                   !.easeInCount = 0]))
    ELSE s

jumpToIndex(s, index) ==
    IF index >= 0 /\ index < Len(s.items)
    THEN notifyProgress(notifyWordChange([s EXCEPT !.currentIndex = index,
                                                   !.easeInCount = 0]))
    ELSE s

----------------------------------------------------------------------------
(* Content ingestion *)

setText(s, text) ==
    LET s1 == stop(s)
        tok == tokenize(text)
    IN notifyProgress(notifyWordChange(
           [s1 EXCEPT !.words = tok.words,
                      !.items = tok.items,
                      !.sentenceStarts = tok.sentenceStarts,
                      !.paragraphEnds = tok.paragraphEnds,
                      !.currentIndex = 0]))

\* The loop of setContent over items, from index i (0-based) on; wordIndex is
\* Len(acc.words).
RECURSIVE scanItems(_, _, _)
scanItems(acc, its, i) ==
    IF i >= Len(its) THEN acc
    ELSE LET item == ItemAt(its, i)
             wordIndex == Len(acc.words)
         IN CASE item.type = "word" ->
                   scanItems([acc EXCEPT
                                 !.words = Append(@, item.value),
                                 !.sentenceStarts =
                                     IF EndsSentence(item.value)
                                     THEN Append(@, wordIndex + 1) ELSE @],
                             its, i + 1)
              [] item.type = "paragraph-break" ->
                   scanItems([acc EXCEPT
                                 !.paragraphEnds =
                                     IF i > 0 THEN Append(@, i - 1) ELSE @],
                             its, i + 1)
              [] OTHER -> scanItems(acc, its, i + 1)

setContent(s, its) ==
    LET s1 == stop(s)
        scan == scanItems([words |-> <<>>, sentenceStarts |-> <<0>>,
                           paragraphEnds |-> <<>>], its, 0)
    IN notifyProgress(notifyWordChange(
           [s1 EXCEPT !.items = its,
                      !.words = scan.words,
                      !.sentenceStarts = scan.sentenceStarts,
                      !.paragraphEnds = scan.paragraphEnds,
                      !.currentIndex = 0]))

----------------------------------------------------------------------------
(* The content producer (parseArticleContent and processNode)              *)
(* A DOM node is a record: nodeType, tagName in lower case, textContent of *)
(* a text node, filled (an img or the img of a figure has a src, a pre has *)
(* text), and childNodes.                                                   *)

TextNode(t) ==
    [nodeType |-> "text", tagName |-> "", textContent |-> t, filled |-> FALSE,
     childNodes |-> <<>>]

\* A node that is neither a text node nor an element.
CommentNode ==
    [nodeType |-> "comment", tagName |-> "", textContent |-> <<>>,
     filled |-> FALSE, childNodes |-> <<>>]

Element(tag, filled, kids) ==
    [nodeType |-> "element", tagName |-> tag, textContent |-> <<>>,
     filled |-> filled, childNodes |-> kids]

skippedElements ==
    {"script", "style", "nav", "header", "footer", "aside", "noscript"}

blockElements ==
    {"p", "div", "article", "section", "h1", "h2", "h3", "h4", "h5", "h6",
     "blockquote", "li"}

\* The words of a text node: the three replacements, the split and the filter.
textWords(text) == SplitWordsFrom(processedText(text), <<>>)

\* items.push({type: 'word', value: word}) for each word from the i-th on.
RECURSIVE pushWords(_, _, _)
pushWords(its, ws, i) ==
    IF i > Len(ws) THEN its ELSE pushWords(Append(its, Word(ws[i])), ws, i + 1)

\* The paragraph break processNode pushes before and after a block element.
pushBreak(its, isBlock) ==
    IF isBlock /\ Len(its) > 0 /\ its[Len(its)].type # "paragraph-break"
    THEN Append(its, ParagraphBreak)
    ELSE its

RECURSIVE processNode(_, _)
RECURSIVE processChildNodes(_, _, _)

\* processNode(node, items, ...): the items after the call.
processNode(node, its) ==
    IF node.nodeType = "text"
    THEN LET text == Trim(node.textContent)
         IN IF text # <<>> THEN pushWords(its, textWords(text), 1) ELSE its
    ELSE IF node.nodeType # "element" THEN its
    ELSE IF node.tagName \in skippedElements THEN its
    ELSE IF node.tagName \in {"img", "figure", "pre"}
    THEN (IF node.filled THEN Append(its, Special) ELSE its)
    ELSE IF node.tagName = "table" THEN Append(its, Special)
    ELSE LET isBlock == node.tagName \in blockElements
         IN pushBreak(processChildNodes(node.childNodes, pushBreak(its, isBlock), 1),
                      isBlock)

\* for (const child of node.childNodes) processNode(child, items, ...), from
\* the i-th child on.
processChildNodes(kids, its, i) ==
    IF i > Len(kids) THEN its
    ELSE processChildNodes(kids, processNode(kids[i], its), i + 1)

\* The loop of parseArticleContent that drops a ParagraphBreak that follows a
\* ParagraphBreak, from the i-th item on.
RECURSIVE cleanItems(_, _, _)
cleanItems(cleaned, its, i) ==
    IF i > Len(its) THEN cleaned
    ELSE IF /\ its[i].type = "paragraph-break"
            /\ Len(cleaned) > 0
            /\ cleaned[Len(cleaned)].type = "paragraph-break"
         THEN cleanItems(cleaned, its, i + 1)
         ELSE cleanItems(Append(cleaned, its[i]), its, i + 1)

\* A parseArticleContent that returns the items as processNode left them:
\* the fault C35 tells from parseArticleContent().
parseArticleContentUntrimmed(body) == processNode(body, <<>>)

\* parseArticleContent(html, baseUrl, null).items, for the body the parser
\* made of html.
parseArticleContent(body) ==
    LET its == processNode(body, <<>>)
        popped == IF Len(its) > 0 /\ its[Len(its)].type = "paragraph-break"
                  THEN SubSeq(its, 1, Len(its) - 1)
                  ELSE its
    IN cleanItems(<<>>, popped, 1)

----------------------------------------------------------------------------
(* Queries *)

\* getProgress()'s first loop over items[i..], from the counts in acc.
RECURSIVE countProgress(_, _, _)
countProgress(s, acc, i) ==
    IF i >= Len(s.items) THEN acc
    ELSE LET item == ItemAt(s.items, i)
         IN IF item.type = "word" \/ item.type = "special"
            THEN countProgress(s,
                     [total |-> acc.total + 1,
                      current |-> IF i <= s.currentIndex
                                  THEN acc.current + 1 ELSE acc.current,
                      specialCount |-> IF item.type = "special"
                                       THEN acc.specialCount + 1
                                       ELSE acc.specialCount],
                     i + 1)
            ELSE countProgress(s, acc, i + 1)

\* getProgress()'s second loop: the Specials at the indices from i on.
RECURSIVE countRemainingSpecial(_, _)
countRemainingSpecial(s, i) ==
    IF i >= Len(s.items) THEN 0
    ELSE (IF ItemAt(s.items, i).type = "special" THEN 1 ELSE 0)
             + countRemainingSpecial(s, i + 1)

\* A getProgress() that counts every item, ParagraphBreaks included: the
\* fault C26 tells from getProgress().
getProgressCountingBreaks(s) ==
    LET n == Len(s.items)
        c == Max(0, Min(n, s.currentIndex + 1))
    IN [current |-> c,
        total |-> n,
        percent |-> IF n > 0 THEN (c * 100 * 100) \div n ELSE 0,
        specialCount |-> countProgress(s, [total |-> 0, current |-> 0,
                                            specialCount |-> 0], 0).specialCount,
        remainingSpecialCount |-> countRemainingSpecial(s, s.currentIndex + 1)]

\* getProgress(); percent is (current / total) * 100 in 1/100, truncated.
getProgress(s) ==
    LET acc == countProgress(s, [total |-> 0, current |-> 0, specialCount |-> 0], 0)
    IN [current |-> acc.current,
        total |-> acc.total,
        percent |-> IF acc.total > 0
                    THEN (acc.current * 100 * 100) \div acc.total ELSE 0,
        specialCount |-> acc.specialCount,
        remainingSpecialCount |-> countRemainingSpecial(s, s.currentIndex + 1)]

\* getContext()'s displayItems: the Word and Special items from index i on,
\* each with its index.
RECURSIVE displayItemsFrom(_, _)
displayItemsFrom(its, i) ==
    IF i >= Len(its) THEN <<>>
    ELSE IF ItemAt(its, i).type \in {"word", "special"}
         THEN <<[index |-> i, item |-> ItemAt(its, i)]>> \o displayItemsFrom(its, i + 1)
         ELSE displayItemsFrom(its, i + 1)

\* getContext()'s currentItemPos after the loop has run from index i, with n
\* displayItems pushed and pos assigned so far.
RECURSIVE currentItemPosFrom(_, _, _, _)
currentItemPosFrom(s, i, n, pos) ==
    IF i >= Len(s.items) THEN pos
    ELSE LET n1 == IF ItemAt(s.items, i).type \in {"word", "special"}
                   THEN n + 1 ELSE n
         IN currentItemPosFrom(s, i + 1, n1,
                               IF i = s.currentIndex THEN n1 - 1 ELSE pos)

\* One entry of getContext()'s result.
contextEntry(d, offset) ==
    [word |-> d.item.value, offset |-> offset, type |-> d.item.type]

\* A getContext() that shifts its window at the boundaries to keep
\* 2 * count + 1 entries: the fault C27 tells from getContext().
getContextShifted(s, count) ==
    LET displayItems == displayItemsFrom(s.items, 0)
        currentItemPos == currentItemPosFrom(s, 0, 0, 0)
        last == Len(displayItems) - 1
        start == Max(0, Min(currentItemPos - count, last - 2 * count))
        end == Min(last, start + 2 * count)
    IN [words |-> [k \in 1..(end - start + 1) |->
                      contextEntry(displayItems[start + k],
                                   start + k - 1 - currentItemPos)],
        currentOffset |-> currentItemPos - start]

getContext(s, count) ==
    LET displayItems == displayItemsFrom(s.items, 0)
        currentItemPos == currentItemPosFrom(s, 0, 0, 0)
        start == Max(0, currentItemPos - count)
        end == Min(Len(displayItems) - 1, currentItemPos + count)
    IN [words |-> [k \in 1..(end - start + 1) |->
                      contextEntry(displayItems[start + k],
                                   start + k - 1 - currentItemPos)],
        currentOffset |-> currentItemPos - start]

----------------------------------------------------------------------------
(* The ORP calculator (orp.js) *)

\* A calculateORP() that takes the third of the length, capped at 4: the
\* fault C31 tells from calculateORP().
calculateORPThirdOfLength(word) == Min(4, Len(word) \div 3)

\* calculateORP(word); a word is the sequence of its UTF-16 units.
calculateORP(word) ==
    LET len == Len(word)
    IN IF len <= 1 THEN 0
       ELSE IF len <= 5 THEN 1
       ELSE IF len <= 9 THEN 2
       ELSE IF len <= 13 THEN 3
       ELSE 4

\* word.slice(from): the units from offset from on, none when from is past
\* the end.
SliceFrom(word, from) == SubSeq(word, Min(from, Len(word)) + 1, Len(word))

\* word.slice(0, to): the units below offset to.
SliceTo(word, to) == SubSeq(word, 1, Min(to, Len(word)))

\* word[i] || '': the unit at offset i, the empty string when there is none.
UnitAt(word, i) == IF i >= 0 /\ i < Len(word) THEN <<word[i + 1]>> ELSE <<>>

\* A splitAtORP() whose after part starts at the ORP unit: the fault C32
\* tells from splitAtORP().
splitAtORPRepeatingUnit(word) ==
    LET orpIndex == calculateORP(word)
    IN [before |-> SliceTo(word, orpIndex),
        orp |-> UnitAt(word, orpIndex),
        after |-> SliceFrom(word, orpIndex)]

\* splitAtORP(word)
splitAtORP(word) ==
    LET orpIndex == calculateORP(word)
    IN [before |-> SliceTo(word, orpIndex),
        orp |-> UnitAt(word, orpIndex),
        after |-> SliceFrom(word, orpIndex + 1)]

\* getCurrentWord(): the value of the Word at currentIndex, the empty string
\* for any other item and outside the list.
getCurrentWord(s) ==
    LET item == ItemAt(s.items, s.currentIndex)
    IN IF item.type = "word" THEN item.value ELSE <<>>

----------------------------------------------------------------------------
(* Navigation *)

\* The number of Word items at item-indices below i.
WordsBefore(its, i) ==
    Cardinality({k \in 0..(i - 1) : ItemAt(its, k).type = "word"})

\* The item-index of the Word with word-index w; dflt when there is none.
ItemIndexOfWord(its, w, dflt) ==
    LET hits == {k \in 0..(Len(its) - 1) :
                    ItemAt(its, k).type = "word" /\ WordsBefore(its, k) = w}
    IN IF hits = {} THEN dflt ELSE SetMin(hits)

\* previousSentence's targetSentenceIdx before the rapid-back-press step:
\* the last index into sentenceStarts whose entry is below the word-index.
SentenceIdxBefore(starts, currentWordIndex) ==
    LET below == {i \in 0..(Len(starts) - 1) : starts[i + 1] < currentWordIndex}
    IN IF below = {} THEN 0 ELSE SetMax(below)

\* this.items[i].type raises a TypeError where items[i] is undefined; the
\* call ends there, with what it had done, and the host sees the exception.
Throw(s) == Emit(s, "TypeError", 0)

previousSentence(s) ==
    LET s0 == clearSpecialContent(s)
        wasPaused == ~s0.isPlaying
        startIndex == s0.currentIndex
        currentWordIndex == WordsBefore(s0.items, s0.currentIndex)
        found == SentenceIdxBefore(s0.sentenceStarts, currentWordIndex)
        rapidBackPress == /\ ~wasPaused
                          /\ s0.backPressRecent
                          /\ s0.lastSkipToSentenceIdx >= 0
                          /\ found = s0.lastSkipToSentenceIdx
                          /\ found > 0
        targetSentenceIdx == IF rapidBackPress THEN found - 1 ELSE found
        targetWordIndex == s0.sentenceStarts[targetSentenceIdx + 1]
        targetIndex == ItemIndexOfWord(s0.items, targetWordIndex, 0)
        specials == {i \in targetIndex..(startIndex - 1) :
                        ItemAt(s0.items, i).type = "special"}
    IN IF s0.currentIndex > Len(s0.items) THEN Throw(s0)
       ELSE IF specials # {}
       THEN LET s1 == notifyProgress([s0 EXCEPT !.currentIndex = SetMax(specials),
                                                !.easeInCount = 0])
                s2 == IF wasPaused THEN notifyWordChange(s1)
                      ELSE showSpecialContent(s1)
            IN [s2 EXCEPT !.backPressRecent = FALSE,
                          !.lastSkipToSentenceIdx = 0 - 1]
       ELSE LET s1 == notifyProgress(notifyWordChange(
                          [s0 EXCEPT !.currentIndex = targetIndex,
                                     !.easeInCount = 0]))
                cameFromSpecial == ItemAt(s0.items, startIndex).type = "special"
                s2 == IF wasPaused \/ cameFromSpecial
                      THEN [s1 EXCEPT !.backPressRecent = FALSE,
                                      !.lastSkipToSentenceIdx = 0 - 1]
                      ELSE [s1 EXCEPT !.backPressRecent = TRUE,
                                      !.lastSkipToSentenceIdx = targetSentenceIdx]
            IN IF ~wasPaused /\ s2.isPlaying
               THEN scheduleNext(IF s2.timeoutId # NULL
                                 THEN clearTimer(s2, s2.timeoutId) ELSE s2)
               ELSE s2

nextSentence(s) ==
    LET s0 == clearSpecialContent(s)
        wasPaused == ~s0.isPlaying
        startIndex == s0.currentIndex
        currentWordIndex == WordsBefore(s0.items, s0.currentIndex)
        later == {i \in 1..Len(s0.sentenceStarts) :
                     s0.sentenceStarts[i] > currentWordIndex}
        targetWordIndex == IF later = {} THEN currentWordIndex
                           ELSE s0.sentenceStarts[SetMin(later)]
        targetIndex == Min(ItemIndexOfWord(s0.items, targetWordIndex, s0.currentIndex),
                           Len(s0.items) - 1)
        specials == {i \in (startIndex + 1)..targetIndex :
                        ItemAt(s0.items, i).type = "special"}
    IN IF s0.currentIndex > Len(s0.items) THEN Throw(s0)
       ELSE IF specials # {}
       THEN LET s1 == notifyProgress([s0 EXCEPT !.currentIndex = SetMin(specials),
                                                !.easeInCount = 0])
            IN IF wasPaused THEN notifyWordChange(s1) ELSE showSpecialContent(s1)
       ELSE LET s1 == notifyProgress(notifyWordChange(
                          [s0 EXCEPT !.currentIndex = targetIndex,
                                     !.easeInCount = 0]))
            IN IF ~wasPaused /\ s1.isPlaying
               THEN scheduleNext(IF s1.timeoutId # NULL
                                 THEN clearTimer(s1, s1.timeoutId) ELSE s1)
               ELSE s1

\* The index previousWord's while loop stops at, started at i.
RECURSIVE SkipBreaksBackward(_, _)
SkipBreaksBackward(its, i) ==
    IF i > 0 /\ ItemAt(its, i).type = "paragraph-break"
    THEN SkipBreaksBackward(its, i - 1)
    ELSE i

\* The index nextWord's while loop stops at, started at i.
RECURSIVE SkipBreaksToLast(_, _)
SkipBreaksToLast(its, i) ==
    IF i < Len(its) - 1 /\ ItemAt(its, i).type = "paragraph-break"
    THEN SkipBreaksToLast(its, i + 1)
    ELSE i

\* A previousWord() that restarts the ease-in ramp: the fault C18 tells from
\* previousWord().
previousWordResettingEase(s) ==
    LET s0 == clearSpecialContent(s)
    IN IF s0.currentIndex > 0
       THEN IF s0.currentIndex - 1 > 0 /\ s0.currentIndex - 1 >= Len(s0.items)
            THEN Throw([s0 EXCEPT !.currentIndex = @ - 1])
            ELSE notifyProgress(notifyWordChange(
                     [s0 EXCEPT !.currentIndex = SkipBreaksBackward(s0.items, @ - 1),
                                !.easeInCount = 0]))
       ELSE s0

previousWord(s) ==
    LET s0 == clearSpecialContent(s)
    IN IF s0.currentIndex > 0
       THEN IF s0.currentIndex - 1 > 0 /\ s0.currentIndex - 1 >= Len(s0.items)
            THEN Throw([s0 EXCEPT !.currentIndex = @ - 1])
            ELSE notifyProgress(notifyWordChange(
                     [s0 EXCEPT !.currentIndex = SkipBreaksBackward(s0.items, @ - 1)]))
       ELSE s0

\* A nextWord() that moves one item and does not skip ParagraphBreaks: the
\* fault C23 tells from nextWord().
nextWordOntoBreak(s) ==
    LET s0 == clearSpecialContent(s)
    IN IF s0.currentIndex < Len(s0.items) - 1
       THEN notifyProgress(notifyWordChange(
                [s0 EXCEPT !.currentIndex = @ + 1]))
       ELSE s0

nextWord(s) ==
    LET s0 == clearSpecialContent(s)
    IN IF s0.currentIndex < Len(s0.items) - 1
       THEN notifyProgress(notifyWordChange(
                [s0 EXCEPT !.currentIndex = SkipBreaksToLast(s0.items, @ + 1)]))
       ELSE s0

----------------------------------------------------------------------------
(* Inputs *)

a == <<"a">>

aDot == <<"a", ".">>

\* A short text of the shape of DEFAULT_TEXT: several sentences in several
\* paragraphs, the last word ending its sentence.
DEFAULT_TEXT == <<"a", ".", "\n", "\n", "a", "!">>

\* The texts given to setText: the default text and the empty text.
Texts == { DEFAULT_TEXT, <<>> }

\* The item lists given to setContent: two Specials in a row before a
\* ParagraphBreak, a Word and a last Special; a Word before two
\* ParagraphBreaks and a Special;
\* a list that ends with a ParagraphBreak; the empty list.
Contents ==
    { <<Special, Special, ParagraphBreak, Word(a), Special>>,
      <<Word(a), ParagraphBreak, ParagraphBreak, Special>>,
      <<Word(a), ParagraphBreak>>,
      <<>> }

\* The arguments given to setWPM.
WpmInputs == {50, 1200}

\* Texts for the tokenizer: hyphens and dashes, sentences, paragraphs, and
\* paragraphs that hold no word.

\* "self-driving cars"
TextCompound ==
    <<"s", "e", "l", "f", "-", "d", "r", "i", "v", "i", "n", "g", " ", "c",
      "a", "r", "s">>

\* "loops<em-dash>catching errors"
TextEmDash ==
    <<"l", "o", "o", "p", "s", EmDash, "c", "a", "t", "c", "h", "i", "n",
      "g", " ", "e", "r", "r", "o", "r", "s">>

\* "pp.3<en-dash>5 ok"
TextEnDash ==
    <<"p", "p", ".", "3", EnDash, "5", " ", "o", "k">>

\* "foo--bar"
TextDoubleHyphen ==
    <<"f", "o", "o", "-", "-", "b", "a", "r">>

\* "a---b -c- d"
TextTripleHyphen ==
    <<"a", "-", "-", "-", "b", " ", "-", "c", "-", " ", "d">>

\* "a <em-dash> b"
TextSpacedDash ==
    <<"a", " ", EmDash, " ", "b">>

\* "Hi. Go!\n\nNo? ok"
TextTwoParagraphs ==
    <<"H", "i", ".", " ", "G", "o", "!", "\n", "\n", "N", "o", "?", " ",
      "o", "k">>

\* "a b.\n \n\nc.\n\nd e."
TextThreeParagraphs ==
    <<"a", " ", "b", ".", "\n", " ", "\n", "\n", "c", ".", "\n", "\n", "d",
      " ", "e", ".">>

\* "a.\nb"
TextOneLineBreak ==
    <<"a", ".", "\n", "b">>

\* "a.\n\n-"
TextHyphenLast ==
    <<"a", ".", "\n", "\n", "-">>

\* "-\n\na."
TextHyphenFirst ==
    <<"-", "\n", "\n", "a", ".">>

\* "a.\n\n-\n\nb"
TextHyphenMiddle ==
    <<"a", ".", "\n", "\n", "-", "\n", "\n", "b">>

\* " \n "
TextBlank ==
    <<" ", "\n", " ">>

TextSamples ==
    { TextCompound,
      TextEmDash,
      TextEnDash,
      TextDoubleHyphen,
      TextTripleHyphen,
      TextSpacedDash,
      TextTwoParagraphs,
      TextThreeParagraphs,
      TextOneLineBreak,
      TextHyphenLast,
      TextHyphenFirst,
      TextHyphenMiddle,
      TextBlank }

\* Item lists for setContent's scan: the last Word ending its sentence or
\* not, and a list with a ParagraphBreak and a Special.
ContentsScan ==
    { <<Word(<<"a", ".">>), Word(<<"b">>)>>,
      <<Word(<<"a">>), Word(<<"b", ".">>)>>,
      <<Word(<<"a", "!">>), ParagraphBreak, Special, Word(<<"b", "?">>),
        Word(<<"c">>)>> }

----------------------------------------------------------------------------
(* Actions: one per host call and one per timer callback *)

\* A call leaves the engine in state r, the value of call.
Step(call) ==
    \E r \in {call} :
        /\ r.easeInCount <= MaxEase
        /\ words' = r.words
        /\ items' = r.items
        /\ sentenceStarts' = r.sentenceStarts
        /\ paragraphEnds' = r.paragraphEnds
        /\ currentIndex' = r.currentIndex
        /\ isPlaying' = r.isPlaying
        /\ wpm' = r.wpm
        /\ timeoutId' = r.timeoutId
        /\ easeInCount' = r.easeInCount
        /\ specialCountdown' = r.specialCountdown
        /\ specialPaused' = r.specialPaused
        /\ countdownIntervalId' = r.countdownIntervalId
        /\ isShowingSpecialContent' = r.isShowingSpecialContent
        /\ backPressRecent' = r.backPressRecent
        /\ lastSkipToSentenceIdx' = r.lastSkipToSentenceIdx
        /\ timers' = r.timers
        /\ hostIdle' = hostIdle

Init ==
    LET r == setText(constructor, DEFAULT_TEXT)
    IN /\ words = r.words
       /\ items = r.items
       /\ sentenceStarts = r.sentenceStarts
       /\ paragraphEnds = r.paragraphEnds
       /\ currentIndex = r.currentIndex
       /\ isPlaying = r.isPlaying
       /\ wpm = r.wpm
       /\ timeoutId = r.timeoutId
       /\ easeInCount = r.easeInCount
       /\ specialCountdown = r.specialCountdown
       /\ specialPaused = r.specialPaused
       /\ countdownIntervalId = r.countdownIntervalId
       /\ isShowingSpecialContent = r.isShowingSpecialContent
       /\ backPressRecent = r.backPressRecent
       /\ lastSkipToSentenceIdx = r.lastSkipToSentenceIdx
       /\ timers = r.timers
       /\ hostIdle = FALSE

\* At most n word-advance timers are pending.  (A countdown timer is only
\* ever set by showSpecialContent, which clears the one it holds first.)
PendingAtMost(n) == Cardinality(PendingWordTimers(State)) <= n

\* Each action takes the input sets of its specification: n bounds the
\* pending timers the call is run with.

SetText(n, texts) ==
    /\ PendingAtMost(n)
    /\ \E text \in texts : Step(setText(State, text))

SetContent(n, contents) ==
    /\ PendingAtMost(n)
    /\ \E its \in contents : Step(setContent(State, its))

\* Every index of the list, and the indices just outside it.
JumpToIndex(n) ==
    /\ PendingAtMost(n)
    /\ \E index \in (0 - 1)..Len(items) :
           Step(jumpToIndex(State, index))

SetWPM(n) ==
    /\ PendingAtMost(n)
    /\ \E w \in WpmInputs : Step(setWPM(State, w))

Play(n) == PendingAtMost(n) /\ Step(play(State))

Pause(n) == PendingAtMost(n) /\ Step(pause(State))

\* toggle() is a call of pause() or of play().
Toggle(n) ==
    /\ PendingAtMost(n)
    /\ Step(toggle(State))

Stop(n) == PendingAtMost(n) /\ Step(stop(State))

SkipSpecialContent(n) ==
    PendingAtMost(n) /\ Step(skipSpecialContent(State))

PreviousSentence(n) ==
    PendingAtMost(n) /\ Step(previousSentence(State))

NextSentence(n) == PendingAtMost(n) /\ Step(nextSentence(State))

PreviousWord(n) == PendingAtMost(n) /\ Step(previousWord(State))

NextWord(n) == PendingAtMost(n) /\ Step(nextWord(State))

\* A pending one-shot timer fires: the host drops it and runs its callback.
WordTimerFires(n) ==
    /\ PendingAtMost(n)
    /\ \E t \in timers :
           /\ t.kind = "advance"
           /\ Step(advance([State EXCEPT !.timers = @ \ {t}]))

BreakTimerFires(n) ==
    /\ PendingAtMost(n)
    /\ \E t \in timers :
           /\ t.kind = "break"
           /\ Step(breakCallback([State EXCEPT !.timers = @ \ {t}]))

\* The interval fires: it stays pending until the engine clears it.
CountdownTimerFires(n) ==
    /\ PendingAtMost(n)
    /\ \E t \in timers :
           /\ t.kind = "countdown"
           /\ Step(countdownCallback(State))

\* 800ms have gone by since the last back press the engine recorded.
BackPressWindowEnds(n) ==
    /\ PendingAtMost(n)
    /\ backPressRecent
    /\ Step([State EXCEPT !.backPressRecent = FALSE])

\* The playback engine under every host call of the player and every timer.
Next ==
    \/ SetText(MaxPending, Texts)
    \/ SetContent(MaxPending, Contents)
    \/ JumpToIndex(MaxPending)
    \/ Play(MaxPending)
    \/ Pause(MaxPending)
    \/ Toggle(MaxPending)
    \/ Stop(MaxPending)
    \/ SkipSpecialContent(MaxPending)
    \/ PreviousSentence(MaxPending)
    \/ NextSentence(MaxPending)
    \/ PreviousWord(MaxPending)
    \/ NextWord(MaxPending)
    \/ WordTimerFires(MaxPending)
    \/ BreakTimerFires(MaxPending)
    \/ CountdownTimerFires(MaxPending)
    \/ BackPressWindowEnds(MaxPending)

Spec == Init /\ [][Next]_vars

\* Uninterrupted reading: a list of eight Words, played, paused and played
\* again at the speeds setWPM allows, with no navigation.
ContentsEase ==
    { <<Word(a), Word(a), Word(a), Word(a), Word(a), Word(a), Word(a), Word(a)>> }

NextEase ==
    \/ SetContent(MaxPending, ContentsEase)
    \/ SetWPM(MaxPending)
    \/ Play(MaxPending)
    \/ Pause(MaxPending)
    \/ WordTimerFires(MaxPending)

SpecEase == Init /\ [][NextEase]_vars

\* Sentence navigation: a list of three sentences (two words each, the last
\* one unfinished) with a ParagraphBreak and a Special inside, and a list
\* whose last Word ends its sentence; jumps, playback and the sentence keys.
ContentsNav ==
    { <<Word(a), Word(aDot), ParagraphBreak, Word(a), Special, Word(aDot),
        Word(a), Word(a)>>,
      <<Word(aDot), Word(a), Word(aDot)>> }

NextNav ==
    \/ SetContent(MaxPending, ContentsNav)
    \/ JumpToIndex(MaxPending)
    \/ Play(MaxPending)
    \/ Pause(MaxPending)
    \/ SkipSpecialContent(MaxPending)
    \/ PreviousSentence(MaxPending)
    \/ NextSentence(MaxPending)
    \/ WordTimerFires(MaxPending)
    \/ BreakTimerFires(MaxPending)
    \/ BackPressWindowEnds(MaxPending)

SpecNav == Init /\ [][NextNav]_vars

\* Back presses during playback: sentences of one and of two words, read at
\* the speeds setWPM allows.
ContentsBack ==
    { <<Word(aDot), Word(a), Word(aDot), Word(aDot), Word(a), Word(a)>> }

NextBack ==
    \/ SetContent(MaxPending, ContentsBack)
    \/ SetWPM(MaxPending)
    \/ JumpToIndex(MaxPending)
    \/ Play(MaxPending)
    \/ Pause(MaxPending)
    \/ PreviousSentence(MaxPending)
    \/ WordTimerFires(MaxPending)
    \/ BackPressWindowEnds(MaxPending)

SpecBack == Init /\ [][NextBack]_vars

\* Reading a document of ten Words and two Specials in three paragraphs,
\* with the word keys and jumps.
ContentsDocument ==
    { <<Word(<<"a">>), Word(<<"b", ".">>), ParagraphBreak, Special,
        Word(<<"c">>), Word(<<"d">>), Word(<<"e", ".">>), ParagraphBreak,
        Word(<<"f">>), Word(<<"g">>), Special, Word(<<"h">>), Word(<<"i">>),
        Word(<<"j", ".">>)>>,
      <<>> }

NextDocument ==
    \/ SetContent(MaxPending, ContentsDocument)
    \/ JumpToIndex(MaxPending)
    \/ Play(MaxPending)
    \/ Pause(MaxPending)
    \/ SkipSpecialContent(MaxPending)
    \/ PreviousWord(MaxPending)
    \/ NextWord(MaxPending)
    \/ NextSentence(MaxPending)
    \/ WordTimerFires(MaxPending)
    \/ BreakTimerFires(MaxPending)

SpecDocument == Init /\ [][NextDocument]_vars

\* Content ingestion: setText on the sample texts and setContent on the
\* sample lists, read with the word keys, jumps and playback.
NextIngest ==
    \/ SetText(MaxPending, TextSamples)
    \/ SetContent(MaxPending, ContentsScan)
    \/ JumpToIndex(MaxPending)
    \/ Play(MaxPending)
    \/ Pause(MaxPending)
    \/ NextWord(MaxPending)
    \/ PreviousWord(MaxPending)
    \/ WordTimerFires(MaxPending)
    \/ BreakTimerFires(MaxPending)

SpecIngest == Init /\ [][NextIngest]_vars

\* "reading"
Reading == <<"r", "e", "a", "d", "i", "n", "g">>

\* Eighteen distinct letters, the words of the ORP calculator are cut from.
Letters ==
    <<"a", "b", "c", "d", "e", "f", "g", "h", "i", "j", "k", "l", "m", "n",
      "o", "p", "q", "s">>

\* The word of n distinct letters.
WordOfLength(n) == SubSeq(Letters, 1, n)

\* The list given to setContent for the display: "reading" and a
\* ParagraphBreak, then a word of every length from 1 to MaxWordLen.
ContentsOrp ==
    { <<Word(Reading), ParagraphBreak>>
          \o [n \in 1..MaxWordLen |-> Word(WordOfLength(n))] }

\* The display: every word the engine reaches is split at its ORP.
NextOrp ==
    \/ SetContent(MaxPending, ContentsOrp)
    \/ JumpToIndex(MaxPending)
    \/ Play(MaxPending)
    \/ Pause(MaxPending)
    \/ PreviousWord(MaxPending)
    \/ NextWord(MaxPending)
    \/ WordTimerFires(MaxPending)
    \/ BreakTimerFires(MaxPending)

SpecOrp == Init /\ [][NextOrp]_vars

\* The lists played to their end: Words, Specials and ParagraphBreaks in
\* every order of neighbours, a list that ends with a ParagraphBreak, a list
\* of one Word.
ContentsRun ==
    { <<Special, Special, ParagraphBreak, Word(a), Special>>,
      <<Word(a), Word(aDot), ParagraphBreak, Special, Word(a)>>,
      <<Word(a), ParagraphBreak>>,
      <<Word(a)>> }

\* The host has made its last call, and it left the engine playing.
HostLeaves ==
    /\ ~hostIdle
    /\ isPlaying
    /\ hostIdle' = TRUE
    /\ UNCHANGED <<words, items, sentenceStarts, paragraphEnds, currentIndex,
                   isPlaying, wpm, timeoutId, easeInCount, specialCountdown,
                   specialPaused, countdownIntervalId, isShowingSpecialContent,
                   backPressRecent, lastSkipToSentenceIdx, timers>>

\* Playback to the end: the host loads a list, jumps, plays and pauses until
\* it leaves; the timers fire before and after.
NextRun ==
    \/ ~hostIdle /\ SetContent(MaxPending, ContentsRun)
    \/ ~hostIdle /\ JumpToIndex(MaxPending)
    \/ ~hostIdle /\ Play(MaxPending)
    \/ ~hostIdle /\ Pause(MaxPending)
    \/ HostLeaves
    \/ WordTimerFires(MaxPending)
    \/ BreakTimerFires(MaxPending)
    \/ CountdownTimerFires(MaxPending)

\* Every scheduled timer eventually fires.
TimersFire ==
    /\ WF_vars(WordTimerFires(MaxPending))
    /\ WF_vars(BreakTimerFires(MaxPending))
    /\ WF_vars(CountdownTimerFires(MaxPending))

SpecRun == Init /\ [][NextRun]_vars /\ TimersFire

\* The nodes the bodies of the articles are made of: text with a word, text
\* of a hyphen (no word), an image, a table, a script, empty and filled
\* paragraphs, blocks in blocks, an inline element, a block of an image.
ArticleNodes ==
    { TextNode(a),
      TextNode(<<" ", "-", " ">>),
      Element("img", TRUE, <<>>),
      Element("pre", FALSE, <<>>),
      Element("table", FALSE, <<>>),
      Element("script", FALSE, <<TextNode(a)>>),
      Element("p", FALSE, <<>>),
      Element("p", FALSE, <<TextNode(aDot)>>),
      Element("li", FALSE, <<TextNode(<<"-">>), CommentNode>>),
      Element("div", FALSE, <<Element("p", FALSE, <<TextNode(a)>>),
                              Element("p", FALSE, <<>>)>>),
      Element("section", FALSE, <<Element("figure", TRUE, <<>>),
                                  Element("h2", FALSE, <<TextNode(a)>>)>>),
      Element("span", FALSE, <<TextNode(a), Element("img", FALSE, <<>>)>>) }

\* The most children of the body of an article.
MaxChildren == 3

RECURSIVE NodeLists(_)
NodeLists(n) ==
    IF n = 0 THEN {<<>>}
    ELSE LET shorter == NodeLists(n - 1)
         IN shorter \cup {Append(kids, node) : kids \in shorter, node \in ArticleNodes}

\* The bodies DOMParser makes of the articles.
Articles == {Element("body", FALSE, kids) : kids \in NodeLists(MaxChildren)}

\* The item lists parseArticleContent makes of the articles.
ArticleItems == {parseArticleContent(body) : body \in Articles}

\* loadFromURL once the article is fetched: parseHTMLToContent throws for an
\* article without items, and the engine gets the items of any other.
LoadFromURL(n) ==
    /\ PendingAtMost(n)
    /\ \E parsed \in ArticleItems :
           /\ Len(parsed) > 0
           /\ Step(setContent(State, parsed))

\* Reading articles: loading, playing and pausing.
NextArticle ==
    \/ LoadFromURL(MaxPending)
    \/ Play(MaxPending)
    \/ Pause(MaxPending)

SpecArticle == Init /\ [][NextArticle]_vars

----------------------------------------------------------------------------
(* The states of the player, and the calls that can run in a state *)

Playing == isPlaying

\* Paused, not holding a Special.
Paused == ~isPlaying /\ ~specialPaused

\* Paused+SpecialHeld: paused while a Special is shown, its countdown stopped.
SpecialHeld == ~isPlaying /\ specialPaused /\ isShowingSpecialContent

\* A countdown is running.
CountdownActive ==
    countdownIntervalId # NULL /\ PendingCountdownTimers(State) # {}

\* The engine as the next call finds it after a call ended in r.
Quiet(r) ==
    [r EXCEPT !.emitted = <<>>, !.started = <<>>, !.returned = "undefined"]

\* The engine as the callback of the fired one-shot timer t finds it.
Fired(t) == [State EXCEPT !.timers = @ \ {t}]

AdvanceTimers == {t \in timers : t.kind = "advance"}

BreakTimers == {t \in timers : t.kind = "break"}

\* The engine after each host call and each timer callback that can run in
\* the current state.
Outcomes ==
    {play(State), pause(State), toggle(State), stop(State),
     skipSpecialContent(State), previousSentence(State), nextSentence(State),
     previousWord(State), nextWord(State)}
    \cup {setText(State, text) : text \in Texts}
    \cup {setContent(State, its) : its \in Contents}
    \cup {jumpToIndex(State, index) : index \in (0 - 1)..Len(items)}
    \cup {advance(Fired(t)) : t \in AdvanceTimers}
    \cup {breakCallback(Fired(t)) : t \in BreakTimers}
    \cup {countdownCallback(State) : t \in PendingCountdownTimers(State)}

----------------------------------------------------------------------------
(* C1: timers of one kind never overlap *)

\* C1.  In every reachable state at most one word-advance timer (the timer of
\* scheduleNext or the 500ms timer of a paragraph break) and at most one
\* countdown timer are pending.
C1_SingleTimerOfEachKind ==
    /\ Cardinality(PendingWordTimers(State)) <= 1
    /\ Cardinality(PendingCountdownTimers(State)) <= 1

----------------------------------------------------------------------------
(* C2: the range of currentIndex *)

\* C2.  Whenever items is non-empty, 0 <= currentIndex < length(items).
C2_IndexInRange ==
    Len(items) > 0 => (0 <= currentIndex /\ currentIndex < Len(items))

----------------------------------------------------------------------------
(* C3: pause() from Playing *)

\* C3.  pause() called in any Playing state leaves isPlaying false, no timer
\* of any kind pending (so no callback scheduled before the pause can fire
\* after it) and currentIndex unchanged.
C3_PauseVoidsTimers ==
    Playing =>
        LET r == pause(State)
        IN /\ ~r.isPlaying
           /\ r.timers = {}
           /\ r.currentIndex = currentIndex

\* The same, for the Playing states in which the timers do not overlap: there
\* pause() holds the handle of every pending timer.
C3_PauseVoidsTrackedTimers ==
    C1_SingleTimerOfEachKind => C3_PauseVoidsTimers

----------------------------------------------------------------------------
(* C4: play() from Paused *)

\* C4.  play() called in Paused (not Paused+SpecialHeld) wraps currentIndex
\* to 0 if it is at or past the last item, sets isPlaying and sets exactly
\* one timer: at a Special the countdown (value 5, the Special shown),
\* otherwise a word-advance timer of getInterval() ms.  play() called while
\* Playing changes nothing and notifies nothing.
C4_PlayFromPaused ==
    /\ Paused =>
           LET r == play(State)
               start == IF currentIndex >= Len(items) - 1 THEN 0 ELSE currentIndex
           IN /\ r.currentIndex = start
              /\ r.isPlaying
              /\ Len(r.started) = 1
              /\ IF ItemAt(items, start).type = "special"
                 THEN /\ r.started[1] = [kind |-> "countdown",
                                         delay |-> Ms(COUNTDOWN_PERIOD_MS)]
                      /\ r.specialCountdown = SPECIAL_CONTENT_DURATION
                      /\ r.isShowingSpecialContent
                      /\ Cardinality(PendingCountdownTimers(r)) = 1
                 ELSE /\ r.started[1] = [kind |-> "advance", delay |-> getInterval(r)]
                      /\ r.isShowingSpecialContent = isShowingSpecialContent
                      /\ r.specialCountdown = specialCountdown
    /\ Playing => play(State) = State

\* Paused on the last item of a list that begins with a Special: play() wraps
\* to index 0 and starts the countdown there.
C4_Witness ==
    /\ Paused
    /\ Len(items) > 1
    /\ currentIndex = Len(items) - 1
    /\ play(State).currentIndex = 0
    /\ play(State).specialCountdown = SPECIAL_CONTENT_DURATION
    /\ Cardinality(PendingCountdownTimers(play(State))) = 1

----------------------------------------------------------------------------
(* C5: pause() during a countdown *)

\* C5.  pause() while a countdown is running stops the countdown timer and
\* keeps the Special shown: isPlaying false, isShowingSpecialContent true,
\* specialPaused true, specialCountdown unchanged, no special-content-end,
\* and exactly one countdown-tick notification, carrying null.
C5_PauseDuringCountdown ==
    (Playing /\ CountdownActive) =>
        LET r == pause(State)
        IN /\ ~r.isPlaying
           /\ r.isShowingSpecialContent
           /\ r.specialPaused
           /\ r.specialCountdown = specialCountdown
           /\ r.countdownIntervalId = NULL
           /\ PendingCountdownTimers(r) = {}
           /\ Emitted(r, "special-content-end") = <<>>
           /\ Emitted(r, "special-countdown-tick") = <<HIDDEN>>

\* Paused+SpecialHeld with 3 seconds of the countdown left, as pause() leaves
\* it: the Special still shown, no countdown timer pending.
C5_Witness ==
    /\ SpecialHeld
    /\ specialCountdown = 3
    /\ countdownIntervalId = NULL
    /\ timers = {}
    /\ ItemAt(items, currentIndex).type = "special"

----------------------------------------------------------------------------
(* C6: play() from Paused+SpecialHeld *)

\* The index advanceToNext moves to from the current one: the next index
\* that holds no ParagraphBreak, or length(items) when there is none.
NextNonBreak == SkipBreaksForward(items, currentIndex + 1)

----------------------------------------------------------------------------
(* C7: the countdown of a Special *)

\* A call that ended in r has entered a Special during playback.
EntersSpecial(r) == r.isPlaying /\ Emitted(r, "special-content") # <<>>

\* Entering a Special leaves no word timer pending.
C7_WordTimerCancelled ==
    \A r \in Outcomes : EntersSpecial(r) => PendingWordTimers(r) = {}

\* Entering a Special sets specialCountdown to 5, emits special-content once
\* with (the Special at currentIndex, 5) and sets the 1000ms countdown timer.
\* While that timer is pending specialCountdown is in 1..5, and each firing
\* emits one tick, carrying specialCountdown - 1; the tick 0 cancels the
\* timer, emits special-content-end and progress, and advances.
C7_Countdown ==
    /\ \A r \in Outcomes :
           EntersSpecial(r) =>
               /\ r.specialCountdown = SPECIAL_CONTENT_DURATION
               /\ Emitted(r, "special-content") = <<SPECIAL_CONTENT_DURATION>>
               /\ ItemAt(r.items, r.currentIndex).type = "special"
               /\ r.isShowingSpecialContent
               /\ r.started[Len(r.started)] =
                      [kind |-> "countdown", delay |-> Ms(COUNTDOWN_PERIOD_MS)]
               /\ Cardinality(PendingCountdownTimers(r)) = 1
    /\ PendingCountdownTimers(State) # {} =>
           LET r == countdownCallback(State)
           IN /\ specialCountdown \in 1..SPECIAL_CONTENT_DURATION
              /\ Emitted(r, "special-countdown-tick") = <<specialCountdown - 1>>
              /\ specialCountdown > 1 =>
                     r = [State EXCEPT !.specialCountdown = @ - 1,
                                       !.emitted = r.emitted]
              /\ specialCountdown = 1 =>
                     /\ Emitted(r, "special-content-end") = <<0>>
                     /\ Emitted(r, "progress") # <<>>
                     /\ r.currentIndex = NextNonBreak
                     /\ PendingCountdownTimers(r) # {} =>
                            Emitted(r, "special-content") # <<>>

\* C7.  Each time a Special is entered during playback any pending word timer
\* is cancelled, specialCountdown is set to 5, special-content is emitted
\* with (item, 5), and the countdown timer then delivers the ticks 4, 3, 2,
\* 1, 0, at most 5 for one showing; the tick 0 cancels the countdown timer,
\* emits special-content-end and progress and advances.
C7_SpecialEntered == C7_WordTimerCancelled /\ C7_Countdown

\* The same, for the states in which the timers do not overlap.
C7_SpecialEnteredTracked == C1_SingleTimerOfEachKind => C7_SpecialEntered

----------------------------------------------------------------------------
(* C8: a ParagraphBreak after a Special *)

\* The engine after each step that leaves the Special shown to go on with
\* playback: the tick 0 of the countdown, skipSpecialContent(), and play()
\* from Paused+SpecialHeld.
LeavesSpecial ==
    {countdownCallback(State) : t \in {u \in PendingCountdownTimers(State) :
                                           Playing /\ specialCountdown = 1}}
    \cup (IF Playing /\ isShowingSpecialContent
          THEN {skipSpecialContent(State)} ELSE {})
    \cup (IF SpecialHeld THEN {play(State)} ELSE {})

\* C8.  When the engine leaves a Special to go on with playback and the next
\* item is a ParagraphBreak, it emits the paragraph-break signal and sets the
\* 500ms timer before anything after the break is processed.
C8_BreakAfterSpecial ==
    ItemAt(items, currentIndex + 1).type = "paragraph-break" =>
        \A r \in LeavesSpecial :
            /\ Emitted(r, "paragraph-break") = <<0>>
            /\ r.started = <<[kind |-> "break", delay |-> Ms(BREAK_PAUSE_MS)]>>
            /\ r.currentIndex = currentIndex + 1

----------------------------------------------------------------------------
(* C9: advance() onto a ParagraphBreak *)

\* C9.  When the callback of a word timer moves onto a ParagraphBreak it
\* emits the paragraph-break signal once and no word-change, and sets one
\* timer, of 500ms.  When that timer fires the engine moves to the next index
\* past the break that holds no ParagraphBreak and processes the item there:
\* a Word gets easeInCount + 1, word-change, progress and, while playing, the
\* next word timer; a Special gets its countdown; with no item there the
\* engine is paused and sets no timer.
C9_AdvanceOntoBreak ==
    /\ \A t \in AdvanceTimers :
           (/\ currentIndex < Len(items) - 1
            /\ ItemAt(items, currentIndex + 1).type = "paragraph-break") =>
               LET r == advance(Fired(t))
               IN /\ r.currentIndex = currentIndex + 1
                  /\ Emitted(r, "paragraph-break") = <<0>>
                  /\ Emitted(r, "word-change") = <<>>
                  /\ r.started = <<[kind |-> "break", delay |-> Ms(BREAK_PAUSE_MS)]>>
                  /\ r.timers = (timers \ {t}) \cup
                         {[id |-> r.timeoutId, kind |-> "break",
                           delay |-> Ms(BREAK_PAUSE_MS)]}
                  /\ r.easeInCount = easeInCount
    /\ \A t \in BreakTimers :
           LET r == breakCallback(Fired(t))
               type == ItemAt(items, NextNonBreak).type
           IN /\ r.currentIndex = NextNonBreak
              /\ Emitted(r, "paragraph-break") = <<>>
              /\ type = "word" =>
                     /\ r.easeInCount = easeInCount + 1
                     /\ r.emitted = <<Ev("word-change", 0), Ev("progress", 0)>>
                     /\ r.started = IF isPlaying
                                    THEN <<[kind |-> "advance",
                                            delay |-> getInterval(r)]>>
                                    ELSE <<>>
              /\ type = "special" =>
                     /\ r.isShowingSpecialContent
                     /\ r.specialCountdown = SPECIAL_CONTENT_DURATION
                     /\ Emitted(r, "word-change") = <<>>
                     /\ r.started = <<[kind |-> "countdown",
                                       delay |-> Ms(COUNTDOWN_PERIOD_MS)]>>
              /\ type = "undefined" =>
                     /\ ~r.isPlaying
                     /\ Emitted(r, "word-change") = <<>>
                     /\ r.started = <<>>

\* Playing on the first of two ParagraphBreaks with the 500ms timer pending,
\* a Special after them: when the timer fires the countdown starts.
C9_Witness ==
    /\ Playing
    /\ ItemAt(items, currentIndex).type = "paragraph-break"
    /\ ItemAt(items, currentIndex + 1).type = "paragraph-break"
    /\ timers = {[id |-> timeoutId, kind |-> "break", delay |-> Ms(BREAK_PAUSE_MS)]}
    /\ \E t \in BreakTimers :
           /\ breakCallback(Fired(t)).isShowingSpecialContent
           /\ breakCallback(Fired(t)).currentIndex = currentIndex + 2

----------------------------------------------------------------------------
(* C10: stop() *)

\* C10.  After stop(), called in any state, isPlaying is false, no timer is
\* pending, isShowingSpecialContent and specialPaused are false,
\* specialCountdown is 0, currentIndex is 0 and easeInCount is 0; a second
\* stop() leaves that state unchanged.
C10_StopResets ==
    LET r == stop(State)
    IN /\ ~r.isPlaying
       /\ r.timers = {}
       /\ ~r.isShowingSpecialContent
       /\ ~r.specialPaused
       /\ r.specialCountdown = 0
       /\ r.currentIndex = 0
       /\ r.easeInCount = 0
       /\ Quiet(stop(Quiet(r))) = Quiet(r)

\* The same, for the states in which the timers do not overlap.
C10_StopResetsTracked == C1_SingleTimerOfEachKind => C10_StopResets

----------------------------------------------------------------------------
(* C11: setText() and setContent() rebuild the engine *)

\* The engine is Paused at index 0 with nothing shown and no timer pending,
\* and its Sequence and indices are those a new engine gets from the input.
Rebuilt(r, new) ==
    /\ ~r.isPlaying
    /\ ~r.specialPaused
    /\ ~r.isShowingSpecialContent
    /\ r.currentIndex = 0
    /\ r.items = new.items
    /\ r.words = new.words
    /\ r.sentenceStarts = new.sentenceStarts
    /\ r.paragraphEnds = new.paragraphEnds
    /\ r.timers = {}

\* C11.  setText(text) and setContent(items), called in any state, cancel
\* every pending timer (so no callback set for the old Sequence can fire
\* afterwards), leave the engine Paused with no Special shown and
\* currentIndex 0, and replace items, words, sentenceStarts and paragraphEnds
\* by those of the input alone.
C11_RebuildCancelsTimers ==
    /\ \A text \in Texts :
           Rebuilt(setText(State, text), setText(constructor, text))
    /\ \A its \in Contents :
           Rebuilt(setContent(State, its), setContent(constructor, its))

\* The same, for the states in which the timers do not overlap.
C11_RebuildTracked == C1_SingleTimerOfEachKind => C11_RebuildCancelsTimers

----------------------------------------------------------------------------
(* C12: the Sequence is never empty *)

\* C12.  After construction and after every setText and setContent, for
\* every input, items holds at least one item.
C12_SequenceNonEmpty == Len(items) >= 1

----------------------------------------------------------------------------
(* C13: jumpToIndex() *)

\* The indices given to jumpToIndex: every index of the list, and two on
\* either side of it.
JumpInputs == (0 - 2)..(Len(items) + 1)

\* C13.  jumpToIndex(i) with 0 <= i < length(items) sets currentIndex to i
\* and easeInCount to 0 and emits word-change and progress; with any other i
\* it changes nothing and emits nothing.  It never raises.
C13_JumpToIndex ==
    \A i \in JumpInputs :
        LET r == jumpToIndex(State, i)
        IN /\ Emitted(r, "TypeError") = <<>>
           /\ IF 0 <= i /\ i < Len(items)
              THEN /\ r.currentIndex = i
                   /\ r.easeInCount = 0
                   /\ r.emitted = <<Ev("word-change", 0), Ev("progress", 0)>>
              ELSE r = State

\* Playing on the second Word shown since play(): a jump to index 1 resets
\* easeInCount, a jump to length(items) does nothing.
C13_Witness ==
    /\ Playing
    /\ easeInCount > 0
    /\ Len(items) > 1
    /\ currentIndex # 1
    /\ jumpToIndex(State, 1).currentIndex = 1
    /\ jumpToIndex(State, 1).easeInCount = 0
    /\ jumpToIndex(State, Len(items)) = State

----------------------------------------------------------------------------
(* C14: skipSpecialContent() *)

\* What C14 and its amendment share: the return value; nothing changed and
\* nothing emitted when it is false; when it is true the countdown timer of
\* the Special left is cancelled (a countdown pending afterwards is that of a
\* Special entered by the call), special-content-end and progress are
\* emitted, and currentIndex is where advanceToNext stops.
SkipEndsAndAdvances(r) ==
    /\ r.returned = (IF isShowingSpecialContent THEN "true" ELSE "false")
    /\ r.returned = "false" => r = [State EXCEPT !.returned = "false"]
    /\ r.returned = "true" =>
           /\ PendingCountdownTimers(r) # {} => Emitted(r, "special-content") # <<>>
           /\ Emitted(r, "special-content-end") = <<0>>
           /\ Emitted(r, "progress") # <<>>
           /\ r.currentIndex = NextNonBreak

----------------------------------------------------------------------------
(* C15: the ease-in ramp *)

\* The divisor, times 100, of the interval of the k-th Word after play()
\* (k = 0 for the Word play() starts on): 0.5, 0.6, 0.7, 0.85, 1.0, then 1.0.
RampDivisor(k) ==
    CASE k = 0 -> 50 [] k = 1 -> 60 [] k = 2 -> 70 [] k = 3 -> 85 [] OTHER -> 100

\* d, in 1/100 ms, is (60000 / w) / (divisor / 100), truncated.
IsRampInterval(d, w, k) ==
    LET base == (60000 * 100 * 100) \div w
    IN d * RampDivisor(k) <= base /\ base < (d + 1) * RampDivisor(k)

\* The intervals at wpm = 250, in ms, rounded.
RampAt250 == <<480, 400, 343, 282, 240, 240, 240, 240>>

RoundedMs(d) == (d + 50) \div 100

\* The timer a call set is the one word timer of the k-th Word after play().
SetsRampTimer(r, k) ==
    /\ Len(r.started) = 1
    /\ r.started[1].kind = "advance"
    /\ IsRampInterval(r.started[1].delay, wpm, k)
    /\ wpm = DEFAULT_WPM => RoundedMs(r.started[1].delay) = RampAt250[k + 1]

\* C15.  play() from Paused on a Word sets the word timer to base / 0.5 and
\* easeInCount to 0; each word timer that fires onto a Word adds one to
\* easeInCount and sets the next word timer to base / 0.6, base / 0.7,
\* base / 0.85, base / 1.0 and base from then on, where base = 60000 / wpm
\* (at wpm = 250: 480, 400, 343, 282, 240, then 240 ms).
C15_EaseInIntervals ==
    /\ (Paused /\ currentIndex < Len(items) - 1
               /\ ItemAt(items, currentIndex).type = "word") =>
           /\ play(State).easeInCount = 0
           /\ SetsRampTimer(play(State), 0)
    /\ \A t \in AdvanceTimers :
           (Playing /\ ItemAt(items, currentIndex + 1).type = "word") =>
               LET r == advance(Fired(t))
               IN /\ r.easeInCount = easeInCount + 1
                  /\ SetsRampTimer(r, easeInCount + 1)

\* The seventh Word after play() at wpm = 250, every Word before it shown by
\* its timer: the pending interval is 240 ms.
C15_Witness ==
    /\ Playing
    /\ wpm = DEFAULT_WPM
    /\ Len(items) = 8
    /\ currentIndex = 6
    /\ easeInCount = 6
    /\ timers = {[id |-> timeoutId, kind |-> "advance", delay |-> Ms(240)]}

----------------------------------------------------------------------------
(* C16: the calls that reset easeInCount *)

\* play() from Paused, stop(), previousSentence() and nextSentence() leave
\* easeInCount at 0.
C16_ResetOutsideHeld ==
    /\ Paused => play(State).easeInCount = 0
    /\ stop(State).easeInCount = 0
    /\ currentIndex <= Len(items) =>
           /\ previousSentence(State).easeInCount = 0
           /\ nextSentence(State).easeInCount = 0

\* play() from Paused+SpecialHeld resets easeInCount before it advances: the
\* count is 1 after the call if it went on to a Word, and 0 otherwise.
C16_ResetFromHeld ==
    SpecialHeld =>
        play(State).easeInCount =
            (IF ItemAt(items, NextNonBreak).type = "word" THEN 1 ELSE 0)

\* C16.  Every play() that starts playback resets easeInCount to 0 before
\* any later advance adds to it, from Paused and from Paused+SpecialHeld;
\* stop(), previousSentence() and nextSentence() leave easeInCount at 0.
C16_EaseResets ==
    /\ C16_ResetFromHeld
    /\ Paused => play(State).easeInCount = 0
    /\ stop(State).easeInCount = 0
    /\ previousSentence(State).easeInCount = 0
    /\ nextSentence(State).easeInCount = 0

----------------------------------------------------------------------------
(* C17: the range of easeInCount *)

\* C17.  easeInCount saturates at 5: in every reachable state
\* 0 <= easeInCount <= 5, however many Words are shown after the last play().
C17_EaseSaturates == 0 <= easeInCount /\ easeInCount <= 5

\* C17, amended.  easeInCount is never negative and is not capped: every Word
\* shown by the word timer adds one to it, also from 5 on.  What saturates at
\* 5 is the ramp: from easeInCount = 5 on the word interval is 60000 / wpm.
C17_EaseCounts ==
    /\ easeInCount >= 0
    /\ easeInCount >= 5 => getInterval(State) = (60000 * 100) \div wpm
    /\ \A t \in AdvanceTimers :
           (Playing /\ easeInCount >= 5
                    /\ ItemAt(items, currentIndex + 1).type = "word") =>
               advance(Fired(t)).easeInCount = easeInCount + 1

\* More than five Words have been shown since play(), and the engine is at rest.
C17_Witness == easeInCount > 5 /\ Paused /\ timers = {}

----------------------------------------------------------------------------
(* C18: what previousWord() and nextWord() leave alone *)

\* The call that ended in r left easeInCount, isPlaying, wpm and the pending
\* word timers as they were, and set no word timer.
KeepsPlayback(r) ==
    /\ r.easeInCount = easeInCount
    /\ r.isPlaying = isPlaying
    /\ r.wpm = wpm
    /\ r.timeoutId = timeoutId
    /\ PendingWordTimers(r) = PendingWordTimers(State)
    /\ \A i \in 1..Len(r.started) : r.started[i].kind = "countdown"

\* C18.  previousWord() and nextWord() leave easeInCount, isPlaying, wpm and
\* any pending word-advance timer unchanged in every state: they neither
\* reset the ease-in ramp nor reschedule playback.
C18_WordStepKeepsPlayback ==
    /\ KeepsPlayback(previousWord(State))
    /\ KeepsPlayback(nextWord(State))

\* Playing inside the ramp with the word timer pending, at an index both
\* calls move away from.
C18_Witness ==
    /\ Playing
    /\ easeInCount > 0
    /\ AdvanceTimers # {}
    /\ previousWord(State).currentIndex < currentIndex
    /\ nextWord(State).currentIndex > currentIndex

----------------------------------------------------------------------------
(* C19, C20: the targets of previousSentence() and nextSentence() *)

\* c of the claims: the number of Word items strictly before index i.
WordCountBefore(i) ==
    Cardinality({k \in 1..Len(items) : k <= i /\ items[k].type = "word"})

\* The item-index of the Word whose word-index is w, as a set: empty when the
\* list has no such Word.
WordItemIndex(w) ==
    {k - 1 : k \in {j \in 1..Len(items) :
                        items[j].type = "word" /\ WordCountBefore(j - 1) = w}}

\* The entries of sentenceStarts.
SentenceStartEntries == {sentenceStarts[i] : i \in 1..Len(sentenceStarts)}

\* The last entry of sentenceStarts strictly less than c; 0 without one.
LastStartBelow(c) ==
    LET below == {e \in SentenceStartEntries : e < c}
    IN IF below = {} THEN 0 ELSE SetMax(below)

\* The Special items at the indices from lo to hi.
SpecialsWithin(lo, hi) ==
    {k \in lo..hi : k >= 0 /\ k < Len(items) /\ items[k + 1].type = "special"}

\* A back press was recorded less than 800ms ago, in play mode.
BackPressInEffect == isPlaying /\ backPressRecent

\* C19.  previousSentence() with no Special between the old position and the
\* target and no rapid back press in effect moves currentIndex to the Word
\* whose word-index is the last entry of sentenceStarts strictly less than
\* c, the number of Words before currentIndex, or to word 0 without such an
\* entry.
C19_PreviousSentence ==
    LET target == WordItemIndex(LastStartBelow(WordCountBefore(currentIndex)))
        r == previousSentence(State)
    IN (/\ ~BackPressInEffect
        /\ target # {}
        /\ \A t \in target : SpecialsWithin(t, currentIndex - 1) = {}) =>
           /\ Emitted(r, "TypeError") = <<>>
           /\ r.currentIndex \in target

\* C19 in the states where currentIndex is an index of the list.
C19_PreviousSentenceInRange == C2_IndexInRange => C19_PreviousSentence

\* The entries of sentenceStarts strictly greater than c.
StartsAbove(c) == {e \in SentenceStartEntries : e > c}

\* C20.  nextSentence() with no Special between the old position and the
\* target moves currentIndex to the Word whose word-index is the first entry
\* of sentenceStarts strictly greater than c, the number of Words before
\* currentIndex; without such an entry (the position is in the last
\* sentence) currentIndex becomes the last item index.
C20_NextSentence ==
    LET later == StartsAbove(WordCountBefore(currentIndex))
        target == IF later = {} THEN {Len(items) - 1}
                  ELSE WordItemIndex(SetMin(later))
        r == nextSentence(State)
    IN (/\ Len(items) > 0
        /\ target # {}
        /\ \A t \in target : SpecialsWithin(currentIndex + 1, t) = {}) =>
           /\ Emitted(r, "TypeError") = <<>>
           /\ r.currentIndex \in target

\* What nextSentence() does in the states where currentIndex is an index of
\* the list: with a later sentence start whose Word exists it moves there;
\* otherwise it moves to the first Word at or after currentIndex and stays
\* where it is when no Word follows.
C20_NextSentenceInRange ==
    LET c == WordCountBefore(currentIndex)
        later == StartsAbove(c)
        target == IF later # {} /\ WordItemIndex(SetMin(later)) # {}
                  THEN WordItemIndex(SetMin(later))
                  ELSE IF WordItemIndex(c) # {} THEN WordItemIndex(c)
                  ELSE {currentIndex}
        r == nextSentence(State)
    IN (/\ C2_IndexInRange
        /\ Len(items) > 0
        /\ \A t \in target : SpecialsWithin(currentIndex + 1, t) = {}) =>
           /\ Emitted(r, "TypeError") = <<>>
           /\ r.currentIndex \in target

----------------------------------------------------------------------------
(* C21: Special items are waypoints of sentence navigation *)

\* The Special items between the old position i (exclusive) and the target t
\* (inclusive), whichever of the two comes first in the list.
SpecialsBetween(i, t) ==
    {k \in SpecialsWithin(Min(i, t), Max(i, t)) : k # i}

\* The Special items strictly between the indices i and j.
SpecialsStrictlyBetween(i, j) ==
    {k \in SpecialsWithin(Min(i, j), Max(i, j)) : k # i /\ k # j}

\* The sentence target of previousSentence() without a rapid back press.
PreviousTarget ==
    WordItemIndex(LastStartBelow(WordCountBefore(currentIndex)))

\* The sentence target of nextSentence(): the Word of the first later
\* sentence start, else the first Word at or after currentIndex, else
\* currentIndex.
NextTarget ==
    LET c == WordCountBefore(currentIndex)
        later == StartsAbove(c)
    IN IF later # {} /\ WordItemIndex(SetMin(later)) # {}
       THEN WordItemIndex(SetMin(later))
       ELSE IF WordItemIndex(c) # {} THEN WordItemIndex(c)
       ELSE {Min(currentIndex, Len(items) - 1)}

\* previousSentence() lands on the last Special between the old position and
\* its target, and jumps over no Special.
PreviousStopsAtSpecial ==
    LET r == previousSentence(State)
    IN /\ \A t \in PreviousTarget :
              (~BackPressInEffect /\ SpecialsBetween(currentIndex, t) # {}) =>
                  r.currentIndex = SetMax(SpecialsBetween(currentIndex, t))
       /\ SpecialsStrictlyBetween(currentIndex, r.currentIndex) = {}

\* nextSentence() lands on the first Special between the old position and its
\* target, and jumps over no Special.
NextStopsAtSpecial ==
    LET r == nextSentence(State)
    IN /\ \A t \in NextTarget :
              SpecialsBetween(currentIndex, t) # {} =>
                  r.currentIndex = SetMin(SpecialsBetween(currentIndex, t))
       /\ SpecialsStrictlyBetween(currentIndex, r.currentIndex) = {}

\* C21.  If a Special lies between the old position (exclusive) and the
\* sentence target (inclusive), previousSentence() lands on the one with the
\* greatest index and nextSentence() on the one with the smallest index;
\* after either call no Special lies strictly between the old and the new
\* currentIndex.
C21_SpecialWaypoints == PreviousStopsAtSpecial /\ NextStopsAtSpecial

\* C21 for previousSentence() in the states where its target is not after
\* currentIndex and currentIndex is at most length(items).
C21_PreviousBackward ==
    (/\ currentIndex <= Len(items)
     /\ \A t \in PreviousTarget : t <= currentIndex) => PreviousStopsAtSpecial

\* C21 for nextSentence() in the states where currentIndex is at most
\* length(items).
C21_NextInRange == currentIndex <= Len(items) => NextStopsAtSpecial

----------------------------------------------------------------------------
(* C22: two back presses less than 800ms apart *)

\* The time the word timer takes for k Words in a row after a back press in
\* play mode: the press resets easeInCount and restarts the timer, and every
\* Word shown adds one to easeInCount.
RECURSIVE RampElapsed(_)
RampElapsed(k) ==
    IF k = 0 THEN 0
    ELSE RampElapsed(k - 1) + getInterval([State EXCEPT !.easeInCount = k - 1])

\* The engine plays, a previousSentence() landed on the start of the sentence
\* with index L, and the word timer has shown k Words since, in less than
\* 800ms: currentIndex is k Words after the landing.
AfterBackPress(L, k) ==
    /\ Playing
    /\ backPressRecent
    /\ lastSkipToSentenceIdx = L
    /\ L >= 1
    /\ L < Len(sentenceStarts)
    /\ easeInCount = k
    /\ AdvanceTimers # {}
    /\ currentIndex < Len(items)
    /\ WordItemIndex(sentenceStarts[L + 1]) = {currentIndex - k}
    /\ \A i \in (currentIndex - k)..currentIndex : items[i + 1].type = "word"
    /\ RampElapsed(k) < Ms(800)

\* The start of the sentence before the sentence with index L.
StartBefore(L) == WordItemIndex(sentenceStarts[L])

\* The second press goes to the start of the sentence before the one the
\* first press landed on.
SecondPressStepsBack(L, k) ==
    (/\ AfterBackPress(L, k)
     /\ \A t \in StartBefore(L) : SpecialsWithin(t, currentIndex) = {}) =>
        /\ StartBefore(L) # {}
        /\ previousSentence(State).currentIndex \in StartBefore(L)

\* Paused, or 800ms or more after the last back press, previousSentence()
\* goes where a single press goes.
NoExtraStepBack ==
    (/\ ~BackPressInEffect
     /\ currentIndex < Len(items)
     /\ PreviousTarget # {}
     /\ \A t \in PreviousTarget : SpecialsWithin(t, currentIndex - 1) = {}) =>
        previousSentence(State).currentIndex \in PreviousTarget

\* C22.  While Playing, with at least two sentence starts before the current
\* word-index and no Special in range, two previousSentence() calls less
\* than 800ms apart, with any number of timer-driven word advances between
\* them, leave currentIndex at the start of the sentence before the one the
\* first call landed on; the extra step back is never taken when the engine
\* is paused or the presses are 800ms or more apart.
C22_RapidBackPress ==
    /\ \A L \in 1..(Len(sentenceStarts) - 1) : \A k \in 0..MaxEase :
           SecondPressStepsBack(L, k)
    /\ NoExtraStepBack

\* C22 for a second press that comes while playback is still in the sentence
\* the first press landed on.
C22_RapidBackPressSameSentence ==
    /\ \A L \in 1..(Len(sentenceStarts) - 1) : \A k \in 0..MaxEase :
           (\A e \in SentenceStartEntries :
                e > sentenceStarts[L + 1] => WordCountBefore(currentIndex) <= e) =>
               SecondPressStepsBack(L, k)
    /\ NoExtraStepBack

----------------------------------------------------------------------------
(* C23: previousWord() and nextWord() on a well-formed Sequence *)

IsBreak(k) == items[k + 1].type = "paragraph-break"

\* No leading, trailing or consecutive ParagraphBreak.
WellFormed ==
    /\ Len(items) >= 1
    /\ ~IsBreak(0)
    /\ ~IsBreak(Len(items) - 1)
    /\ \A k \in 0..(Len(items) - 2) : ~(IsBreak(k) /\ IsBreak(k + 1))

\* The items after, and before, currentIndex that are no ParagraphBreak.
Following == {k \in (currentIndex + 1)..(Len(items) - 1) : ~IsBreak(k)}

Preceding == {k \in 0..(currentIndex - 1) : ~IsBreak(k)}

\* The call that ended in r moved to index k and notified word-change and
\* progress.
MovedTo(r, k) ==
    /\ r.currentIndex = k
    /\ ~IsBreak(k)
    /\ Len(Emitted(r, "word-change")) = 1
    /\ Len(Emitted(r, "progress")) = 1

\* The call that ended in r left the position alone and notified neither.
Stayed(r) ==
    /\ r.currentIndex = currentIndex
    /\ Emitted(r, "word-change") = <<>>
    /\ Emitted(r, "progress") = <<>>

\* C23.  On a well-formed Sequence with currentIndex in range, nextWord()
\* moves to the nearest following item that is no ParagraphBreak and
\* previousWord() to the nearest preceding one; at the last (first) item the
\* position is unchanged and neither word-change nor progress is emitted;
\* the resulting item is never a ParagraphBreak; previousWord() after a
\* nextWord() that moved from a displayable item returns to the index.
C23_WordSteps ==
    (WellFormed /\ 0 <= currentIndex /\ currentIndex < Len(items)) =>
        LET n == nextWord(State)
            p == previousWord(State)
        IN /\ IF Following = {} THEN Stayed(n) /\ currentIndex = Len(items) - 1
              ELSE MovedTo(n, SetMin(Following))
           /\ IF Preceding = {} THEN Stayed(p) /\ currentIndex = 0
              ELSE MovedTo(p, SetMax(Preceding))
           /\ (~IsBreak(currentIndex) /\ n.currentIndex # currentIndex) =>
                  previousWord(Quiet(n)).currentIndex = currentIndex

\* Playing on a Word before a ParagraphBreak of a well-formed Sequence, with
\* a displayable item on each side: both calls move, nextWord() over the
\* ParagraphBreak.
C23_Witness ==
    /\ WellFormed
    /\ currentIndex > 0
    /\ currentIndex + 2 < Len(items)
    /\ ~IsBreak(currentIndex)
    /\ IsBreak(currentIndex + 1)
    /\ nextWord(State).currentIndex = currentIndex + 2
    /\ previousWord(State).currentIndex < currentIndex

----------------------------------------------------------------------------
(* C24: the state-change notification *)

\* The flag notifyStateChange() delivers for a value of isPlaying.
Flag(b) == IF b THEN 1 ELSE 0

\* The state-change flags of the call that ended in r alternate, starting
\* with the negation of isPlaying at the call, and the last one is the
\* isPlaying the call leaves: one notification for every change of isPlaying.
SignalsEveryChange(r) ==
    LET flags == Emitted(r, "state-change")
    IN /\ \A i \in 1..Len(flags) :
              flags[i] = Flag(IF i % 2 = 1 THEN ~isPlaying ELSE isPlaying)
       /\ r.isPlaying = (IF Len(flags) % 2 = 1 THEN ~isPlaying ELSE isPlaying)

\* C24.  state-change is emitted exactly when isPlaying changes value and
\* carries the new value: over the calls and timer firings the flags
\* alternate true, false, true, ... (isPlaying is false at the start), and a
\* play() while Playing or a pause() while not playing emits nothing.
C24_StateChange ==
    /\ \A r \in Outcomes : SignalsEveryChange(r)
    /\ isPlaying => play(State).emitted = <<>>
    /\ ~isPlaying => pause(State).emitted = <<>>
    /\ ~constructor.isPlaying

\* Paused+SpecialHeld on the last item: play() changes isPlaying twice (it
\* starts playback and finds nothing to advance to) and signals true, false.
C24_Witness ==
    /\ SpecialHeld
    /\ Emitted(play(State), "state-change") = <<1, 0>>
    /\ ~play(State).isPlaying

----------------------------------------------------------------------------
(* C25: setWPM *)

\* Arguments of setWPM below, at, inside and above the range of wpm.
WpmProbes == {0 - 25, 0, 99, 100, 101, 275, 999, 1000, 1001, 1200}

\* min(1000, max(100, x)).
Clamped(x) == IF x < 100 THEN 100 ELSE IF x > 1000 THEN 1000 ELSE x

\* C25.  setWPM(x) sets wpm to min(1000, max(100, x)) and changes nothing
\* else: currentIndex, isPlaying, easeInCount, the special-content state and
\* the pending timers stay, and nothing is notified; 100 <= wpm <= 1000 in
\* every reachable state.
C25_SetWPM ==
    /\ \A x \in WpmProbes \cup WpmInputs :
           setWPM(State, x) = [State EXCEPT !.wpm = Clamped(x)]
    /\ 100 <= wpm
    /\ wpm <= 1000

\* setWPM was called with a value above the range while the word timer was
\* pending inside the ramp.
C25_Witness ==
    /\ Playing
    /\ wpm = 1000
    /\ easeInCount > 0
    /\ \E t \in AdvanceTimers : t.delay > getInterval(State)

----------------------------------------------------------------------------
(* C26: getProgress() *)

\* The indices of the Word and Special items, and of the Special items.
Displayable == {k \in 0..(Len(items) - 1) : items[k + 1].type \in {"word", "special"}}

SpecialIndices == {k \in 0..(Len(items) - 1) : items[k + 1].type = "special"}

\* C26.  getProgress() returns total = the number of Word and Special items,
\* current = the number of them at item-index <= currentIndex, specialCount
\* = the number of Special items, remainingSpecialCount = the number of
\* Special items at item-index > currentIndex, and percent =
\* 100 * current / total (0 when total is 0); ParagraphBreaks are not
\* counted.
C26_GetProgress ==
    LET p == getProgress(State)
    IN /\ p.total = Cardinality(Displayable)
       /\ p.current = Cardinality({k \in Displayable : k <= currentIndex})
       /\ p.specialCount = Cardinality(SpecialIndices)
       /\ p.remainingSpecialCount =
              Cardinality({k \in SpecialIndices : k > currentIndex})
       /\ IF p.total = 0 THEN p.percent = 0
          ELSE /\ p.percent * p.total <= 100 * 100 * p.current
               /\ 100 * 100 * p.current < (p.percent + 1) * p.total

\* Ten Words and two Specials, positioned at the fifth displayable item,
\* after a ParagraphBreak: current = 5 and total = 12.
C26_Witness ==
    /\ Cardinality(Displayable \ SpecialIndices) = 10
    /\ Cardinality(SpecialIndices) = 2
    /\ Cardinality(Displayable) < Len(items)
    /\ Cardinality({k \in Displayable : k <= currentIndex}) = 5
    /\ currentIndex \in Displayable
    /\ getProgress(State).current = 5
    /\ getProgress(State).total = 12
    /\ getProgress(State).remainingSpecialCount = 1
    /\ Playing

----------------------------------------------------------------------------
(* C27: getContext() *)

\* The values of count: none, one, two, and the default 20.
ContextCounts == {0, 1, 2, 20}

\* The number of displayable items before index d, and the index of the
\* displayable item with k displayable items before it.
Rank(d) == Cardinality({e \in Displayable : e < d})

NthDisplayable(k) == CHOOSE d \in Displayable : Rank(d) = k

\* The entries are Words and Specials, at most 2 * count + 1, with
\* consecutive offsets.
WindowShape(ctx, count) ==
    /\ \A i \in 1..Len(ctx.words) : ctx.words[i].type \in {"word", "special"}
    /\ Len(ctx.words) <= 2 * count + 1
    /\ \A i \in 1..(Len(ctx.words) - 1) :
           ctx.words[i + 1].offset = ctx.words[i].offset + 1

\* The entries are the displayable items around the one at position pos: all
\* those at most count away from it, each with its distance as offset.
WindowAround(ctx, count, pos) ==
    LET offsets == {o \in (0 - count)..count :
                        pos + o >= 0 /\ pos + o < Cardinality(Displayable)}
    IN /\ Len(ctx.words) = Cardinality(offsets)
       /\ \A i \in 1..Len(ctx.words) :
              /\ ctx.words[i].offset \in offsets
              /\ LET it == items[NthDisplayable(pos + ctx.words[i].offset) + 1]
                 IN /\ ctx.words[i].type = it.type
                    /\ ctx.words[i].word = it.value

\* C27.  getContext(count) returns, in Sequence order, only Word and Special
\* items, at most 2 * count + 1 of them, with consecutive offsets; exactly
\* one entry has offset 0, it is the item at currentIndex, and
\* words[currentOffset] is that entry; the window is truncated, not
\* shifted, at the boundaries of the Sequence.
C27_GetContext ==
    \A count \in ContextCounts :
        LET ctx == getContext(State, count)
            zero == {i \in 1..Len(ctx.words) : ctx.words[i].offset = 0}
        IN /\ WindowShape(ctx, count)
           /\ Cardinality(zero) = 1
           /\ zero = {ctx.currentOffset + 1}
           /\ currentIndex \in Displayable
           /\ WindowAround(ctx, count, Rank(currentIndex))

\* The position getContext() centres its window on: the last displayable
\* item at or before currentIndex, -1 when there is none; the first
\* displayable item when currentIndex is not an index of the list.
Centre ==
    IF currentIndex >= 0 /\ currentIndex < Len(items)
    THEN Cardinality({e \in Displayable : e <= currentIndex}) - 1
    ELSE 0

\* C27, amended.  getContext(count) returns, in Sequence order, only Word
\* and Special items, at most 2 * count + 1 of them, with consecutive
\* offsets, truncated and not shifted at the boundaries.  Offset 0 is the
\* item at currentIndex when that is a Word or a Special, the nearest
\* displayable item before it when it is a ParagraphBreak, and the first
\* displayable item when currentIndex is not an index of the list.  When
\* such an item exists exactly one entry has offset 0 and
\* words[currentOffset] is that entry; otherwise no entry has offset 0.
C27_GetContextAmended ==
    \A count \in ContextCounts :
        LET ctx == getContext(State, count)
            zero == {i \in 1..Len(ctx.words) : ctx.words[i].offset = 0}
        IN /\ WindowShape(ctx, count)
           /\ WindowAround(ctx, count, Centre)
           /\ ctx.currentOffset = Min(Centre, count)
           /\ IF Centre >= 0 /\ Centre < Cardinality(Displayable)
              THEN zero = {ctx.currentOffset + 1}
              ELSE zero = {}
           /\ currentIndex \in Displayable => Centre = Rank(currentIndex)

\* The 500ms pause at a ParagraphBreak near the start of the list: the
\* window of getContext(2) is centred on the Word before the break and is
\* cut at the start of the list.
C27_Witness ==
    /\ Playing
    /\ BreakTimers # {}
    /\ currentIndex > 0
    /\ currentIndex < Len(items)
    /\ IsBreak(currentIndex)
    /\ Centre = 1
    /\ Len(getContext(State, 2).words) = 4
    /\ getContext(State, 2).currentOffset = 1
    /\ getContext(State, 2).words[2].word = items[currentIndex].value

----------------------------------------------------------------------------
(* C28: sentenceStarts after setText and setContent *)

\* sentenceStarts of r starts with 0 and is strictly ascending.
StartsAscending(r) ==
    /\ Len(r.sentenceStarts) >= 1
    /\ r.sentenceStarts[1] = 0
    /\ \A i \in 1..(Len(r.sentenceStarts) - 1) :
           r.sentenceStarts[i] < r.sentenceStarts[i + 1]

\* The entries of r's sentenceStarts after the first.
LaterStarts(r) == {r.sentenceStarts[i] : i \in 2..Len(r.sentenceStarts)}

\* sentenceStarts of r holds w + 1 exactly for the Words w that end in '.',
\* '!' or '?' and are not the final Word, and every entry is a word-index.
StartsAtSentenceEnds(r) ==
    /\ LaterStarts(r) =
           {w + 1 : w \in {v \in 0..(Len(r.words) - 2) : EndsSentence(r.words[v + 1])}}
    /\ \A i \in 1..Len(r.sentenceStarts) : r.sentenceStarts[i] < Len(r.words)

\* C28.  After setText(text) and after setContent(items), sentenceStarts is
\* strictly ascending, starts with 0, and contains w + 1 exactly when the
\* Word with word-index w ends in '.', '!' or '?' and is not the final Word;
\* every entry is a word-index below the number of Words.
C28_SentenceStarts ==
    /\ \A text \in TextSamples :
           LET r == setText(State, text)
           IN StartsAscending(r) /\ StartsAtSentenceEnds(r)
    /\ \A its \in ContentsScan :
           LET r == setContent(State, its)
           IN StartsAscending(r) /\ StartsAtSentenceEnds(r)

\* C28 for setText on the texts whose last paragraph holds a Word.
C28_SetTextEndingInWord ==
    \A text \in TextSamples :
        LET r == setText(State, text)
        IN (r.items # <<>> /\ r.items[Len(r.items)].type = "word") =>
               StartsAscending(r) /\ StartsAtSentenceEnds(r)

\* What setContent records: w + 1 for every Word that ends in '.', '!' or
\* '?', the final Word included.
C28_SetContentRecordsEveryEnd ==
    \A its \in ContentsScan :
        LET r == setContent(State, its)
        IN /\ StartsAscending(r)
           /\ LaterStarts(r) =
                  {w + 1 : w \in {v \in 0..(Len(r.words) - 1) :
                                      EndsSentence(r.words[v + 1])}}

----------------------------------------------------------------------------
(* C29: ParagraphBreaks produced by setText *)

\* The number of non-empty paragraphs, separated by blank lines, of each
\* sample text.
ParagraphCount(text) ==
    CASE text = TextBlank -> 0
      [] text = TextTwoParagraphs -> 2
      [] text = TextThreeParagraphs -> 3
      [] text = TextHyphenLast -> 2
      [] text = TextHyphenFirst -> 2
      [] text = TextHyphenMiddle -> 3
      [] OTHER -> 1

\* The sample texts with a paragraph made of hyphens only, which holds no
\* word.
WordlessParagraphTexts == {TextHyphenLast, TextHyphenFirst, TextHyphenMiddle}

\* The item-indices of the ParagraphBreaks of r.
BreakIndices(r) ==
    {k \in 0..(Len(r.items) - 1) : r.items[k + 1].type = "paragraph-break"}

\* r holds n - 1 ParagraphBreaks, each directly between two Words, and
\* paragraphEnds holds the index before each of them, once.
BreaksBetweenParagraphs(r, n) ==
    /\ Cardinality(BreakIndices(r)) = n - 1
    /\ \A k \in BreakIndices(r) :
           /\ ItemAt(r.items, k - 1).type = "word"
           /\ ItemAt(r.items, k + 1).type = "word"
    /\ Len(r.paragraphEnds) = Cardinality(BreakIndices(r))
    /\ {r.paragraphEnds[i] : i \in 1..Len(r.paragraphEnds)} =
           {k - 1 : k \in BreakIndices(r)}

\* C29.  setText on a text of n >= 1 non-empty paragraphs separated by blank
\* lines produces exactly n - 1 ParagraphBreaks, each directly after the
\* last Word of one paragraph and directly before the first Word of the
\* next, none after the last paragraph; paragraphEnds holds exactly the
\* item-indices immediately preceding each ParagraphBreak.
C29_ParagraphBreaks ==
    \A text \in TextSamples :
        ParagraphCount(text) >= 1 =>
            BreaksBetweenParagraphs(setText(State, text), ParagraphCount(text))

\* C29 for the texts in which every paragraph holds a word.
C29_ParagraphsWithWords ==
    \A text \in TextSamples \ WordlessParagraphTexts :
        ParagraphCount(text) >= 1 =>
            BreaksBetweenParagraphs(setText(State, text), ParagraphCount(text))

\* setText('a.\n\n-') leaves a ParagraphBreak as the last item.
C29_TrailingBreak ==
    LET r == setText(State, TextHyphenLast)
    IN /\ Len(r.items) = 2
       /\ r.items[1].type = "word"
       /\ r.items[2].type = "paragraph-break"
       /\ r.paragraphEnds = <<0>>

----------------------------------------------------------------------------
(* C30: hyphens and dashes in setText's tokenizer *)

\* The Words the sample texts with hyphens and dashes are to give.
WordsOfCompound ==
    <<<<"s", "e", "l", "f">>,
      <<"d", "r", "i", "v", "i", "n", "g">>,
      <<"c", "a", "r", "s">>>>

WordsOfEmDash ==
    <<<<"l", "o", "o", "p", "s", EmDash>>,
      <<"c", "a", "t", "c", "h", "i", "n", "g">>,
      <<"e", "r", "r", "o", "r", "s">>>>

WordsOfEnDash ==
    <<<<"p", "p", ".", "3", EnDash>>,
      <<"5">>,
      <<"o", "k">>>>

WordsOfDoubleHyphen ==
    <<<<"f", "o", "o", EmDash>>,
      <<"b", "a", "r">>>>

WordsOfTripleHyphen ==
    <<<<"a", EmDash>>,
      <<"b">>,
      <<"c">>,
      <<"d">>>>

WordsOfSpacedDash ==
    <<<<"a">>,
      <<EmDash>>,
      <<"b">>>>

\* No Word of r is empty or holds whitespace or a plain hyphen; a dash is the
\* last character of its Word; the Word items are the words, in order.
WordsClean(r) ==
    /\ \A i \in 1..Len(r.words) :
           LET word == r.words[i]
           IN /\ word # <<>>
              /\ \A j \in 1..Len(word) :
                     /\ ~IsSpace(word[j])
                     /\ word[j] # "-"
                     /\ word[j] \in {EmDash, EnDash} => j = Len(word)
    /\ LET wordItems == SelectSeq(r.items, LAMBDA it : it.type = "word")
       IN /\ Len(wordItems) = Len(r.words)
          /\ \A i \in 1..Len(r.words) : wordItems[i].value = r.words[i]

\* C30.  setText splits a compound joined by a single hyphen into separate
\* Words with the hyphen removed, splits at an em or en dash keeping the
\* dash at the end of the preceding Word, and treats a double hyphen as an
\* em dash; no Word is empty or contains whitespace or a plain hyphen.
C30_Tokenization ==
    /\ setText(State, TextCompound).words = WordsOfCompound
    /\ setText(State, TextEmDash).words = WordsOfEmDash
    /\ setText(State, TextEnDash).words = WordsOfEnDash
    /\ setText(State, TextDoubleHyphen).words = WordsOfDoubleHyphen
    /\ setText(State, TextTripleHyphen).words = WordsOfTripleHyphen
    /\ setText(State, TextSpacedDash).words = WordsOfSpacedDash
    /\ \A text \in TextSamples : WordsClean(setText(State, text))

\* The engine holds the three Words of "self-driving cars" and plays them.
C30_Witness ==
    /\ words = WordsOfCompound
    /\ Len(items) = 3
    /\ Playing
    /\ currentIndex = 1

----------------------------------------------------------------------------
(* C31: the ORP index *)

\* The words the display splits: the current word (empty on a Special, on a
\* ParagraphBreak and outside the list) and the words of the context.
DisplayedWords ==
    {getCurrentWord(State)}
        \cup {items[k].value : k \in {j \in 1..Len(items) : items[j].type = "word"}}

\* The index the rule gives a word of length L.
OrpOfLength(L) ==
    CASE L <= 1 -> 0
      [] L >= 2 /\ L <= 5 -> 1
      [] L >= 6 /\ L <= 9 -> 2
      [] L >= 10 /\ L <= 13 -> 3
      [] L >= 14 -> 4

\* C31.  For every displayed word of length L, calculateORP is 0 for L <= 1,
\* 1 for L <= 5, 2 for L <= 9, 3 for L <= 13 and 4 above; it lies in
\* 0..min(4, max(0, L - 1)), it is an offset into the word when L >= 1, and a
\* longer word never has a smaller index.
C31_CalculateORP ==
    /\ \A w \in DisplayedWords :
           /\ calculateORP(w) = OrpOfLength(Len(w))
           /\ calculateORP(w) >= 0
           /\ calculateORP(w) <= Min(4, Max(0, Len(w) - 1))
           /\ Len(w) >= 1 => calculateORP(w) < Len(w)
    /\ \A v, w \in DisplayedWords :
           Len(v) <= Len(w) => calculateORP(v) <= calculateORP(w)

\* A word of every band is on display during playback, the current word
\* one of the longest.
C31_Witness ==
    /\ isPlaying
    /\ {OrpOfLength(Len(w)) : w \in DisplayedWords} = 0..4
    /\ {1, 5, 6, 9, 10, 13, 14} \subseteq {Len(w) : w \in DisplayedWords}
    /\ Len(getCurrentWord(State)) >= 14
    /\ calculateORP(getCurrentWord(State)) = 4

----------------------------------------------------------------------------
(* C32: the split at the ORP *)

\* C32.  For every displayed word, splitAtORP gives three parts whose
\* concatenation is the word; before is as long as the ORP index; orp is one
\* unit of a non-empty word and empty for the empty word; and "reading" is
\* split into "re", "a", "ding".
C32_SplitAtORP ==
    /\ \A w \in DisplayedWords \cup {<<>>, Reading} :
           LET parts == splitAtORP(w)
           IN /\ DOMAIN parts = {"before", "orp", "after"}
              /\ parts.before \o parts.orp \o parts.after = w
              /\ Len(parts.before) = calculateORP(w)
              /\ Len(parts.orp) = (IF Len(w) >= 1 THEN 1 ELSE 0)
    /\ splitAtORP(Reading) =
           [before |-> <<"r", "e">>, orp |-> <<"a">>,
            after |-> <<"d", "i", "n", "g">>]

\* During playback the list holds "reading" and a word of every band, and
\* the engine is on the ParagraphBreak after "reading": the display splits
\* the empty word.
C32_Witness ==
    /\ isPlaying
    /\ {calculateORP(w) : w \in DisplayedWords} = 0..4
    /\ currentIndex = 1
    /\ ItemAt(items, 0).value = Reading
    /\ getCurrentWord(State) = <<>>
    /\ splitAtORP(getCurrentWord(State)).orp = <<>>

----------------------------------------------------------------------------
(* C33: playback terminates *)

\* Playback has ended: the engine is not playing and no timer is pending.
Ended == ~isPlaying /\ timers = {}

\* advance() at the last item (or past it) pauses and does not move.
PausesAtLastItem ==
    \A t \in AdvanceTimers :
        currentIndex >= Len(items) - 1 =>
            LET r == advance(Fired(t))
            IN /\ r.currentIndex = currentIndex
               /\ ~r.isPlaying
               /\ r.started = <<>>
               /\ isPlaying => Emitted(r, "state-change") = <<0>>

\* The callback that stops playback emits state-change(false), once and last.
StopSignalled ==
    \A r \in {advance(Fired(t)) : t \in AdvanceTimers}
                 \cup {breakCallback(Fired(t)) : t \in BreakTimers}
                 \cup {countdownCallback(State) : t \in PendingCountdownTimers(State)} :
        (isPlaying /\ ~r.isPlaying) =>
            /\ Emitted(r, "state-change") = <<0>>
            /\ r.emitted[Len(r.emitted)] = Ev("state-change", 0)

\* C33.  Once the host has made its last call and left the engine playing a
\* non-empty list, and every timer fires, playback ends: the engine gets to
\* isPlaying = false with no timer pending and stays there; the callback that
\* stops it emits
\* a last state-change(false), and advance() at the last item pauses
\* instead of moving.
C33_PlaybackTerminates ==
    /\ (hostIdle /\ isPlaying /\ Len(items) > 0) ~> Ended
    /\ [][hostIdle /\ Ended => Ended']_vars
    /\ [](PausesAtLastItem /\ StopSignalled)

\* Playback of a list of several items has run to its end after the host's
\* last call.
C33_Witness ==
    /\ hostIdle
    /\ Ended
    /\ Len(items) > 2
    /\ currentIndex >= Len(items) - 1

----------------------------------------------------------------------------
(* C34: what a sentence key does where it lands *)

\* The call ending in r moved the engine onto a Special.
LandsOnSpecial(r) ==
    /\ r.currentIndex # currentIndex
    /\ ItemAt(items, r.currentIndex).type = "special"

\* The call ending in r only repositioned: no timer, no Special on show.
OnlyRepositions(r) ==
    /\ r.started = <<>>
    /\ PendingCountdownTimers(r) = {}
    /\ r.countdownIntervalId = NULL
    /\ ~r.isShowingSpecialContent
    /\ Emitted(r, "special-content") = <<>>
    /\ ~r.isPlaying

\* The call ending in r shows the Special with a fresh countdown.
ShowsWithCountdown(r) ==
    /\ r.isShowingSpecialContent
    /\ r.specialCountdown = SPECIAL_CONTENT_DURATION
    /\ Emitted(r, "special-content") = <<SPECIAL_CONTENT_DURATION>>
    /\ r.started = <<[kind |-> "countdown", delay |-> Ms(COUNTDOWN_PERIOD_MS)]>>
    /\ Cardinality(PendingCountdownTimers(r)) = 1
    /\ r.isPlaying

\* The call ending in r left one word timer pending, the one it started.
ReschedulesWord(r) ==
    /\ Len(r.started) = 1
    /\ r.started[1].kind = "advance"
    /\ Cardinality(PendingWordTimers(r)) = 1
    /\ \A t \in PendingWordTimers(r) : t.id = r.timeoutId /\ t.kind = "advance"

\* What C34 says of the sentence call that ends in r.
LandsAsSpecified(r) ==
    /\ (LandsOnSpecial(r) /\ ~isPlaying) => OnlyRepositions(r)
    /\ (LandsOnSpecial(r) /\ isPlaying) =>
           ShowsWithCountdown(r) /\ PendingWordTimers(r) = {}
    /\ (isPlaying /\ ItemAt(items, r.currentIndex).type \in {"word", "paragraph-break"}) =>
           ReschedulesWord(r)

\* C34.  previousSentence() or nextSentence() that lands on a Special only
\* repositions when the engine was not playing (no countdown timer, no
\* Special on show, no special-content), and shows the Special with a
\* countdown of 5 and no word timer pending when it was playing; landing on
\* a Word or ParagraphBreak while playing, it cancels the pending word timer
\* and schedules exactly one.
C34_SentenceLanding ==
    \A r \in {previousSentence(State), nextSentence(State)} : LandsAsSpecified(r)

\* The same for the states in which no word timers overlap.
C34_SentenceLandingTracked ==
    Cardinality(PendingWordTimers(State)) <= 1 => C34_SentenceLanding

----------------------------------------------------------------------------
(* C35: the lists of the content producer *)

\* its has no ParagraphBreak first or last and no two in a row.
NoStrayBreaks(its) ==
    LET breaks == {k \in 1..Len(its) : its[k].type = "paragraph-break"}
    IN /\ 1 \notin breaks
       /\ Len(its) \notin breaks
       /\ \A k \in breaks : k + 1 \notin breaks

\* C35.  The list parseArticleContent returns for an article never starts
\* with a ParagraphBreak, never ends with one and never holds two in a row;
\* so it is with the list the engine holds once an article is loaded.
C35_ArticleItems ==
    /\ \A its \in ArticleItems : NoStrayBreaks(its)
    /\ items \in ArticleItems => NoStrayBreaks(items)

\* The engine plays an article of several paragraphs whose last block
\* element left a ParagraphBreak behind it, which parseArticleContent removed.
C35_Witness ==
    /\ isPlaying
    /\ \E k \in 1..Len(items) : items[k].type = "paragraph-break"
    /\ \E k \in 1..Len(items) : items[k].type = "special"
    /\ \E body \in Articles :
           /\ parseArticleContent(body) = items
           /\ processNode(body, <<>>) = Append(items, ParagraphBreak)

----------------------------------------------------------------------------
(* C36: no timer while the engine is not playing *)

\* The engine after each timer callback that can run in the current state.
CallbackOutcomes ==
    {advance(Fired(t)) : t \in AdvanceTimers}
        \cup {breakCallback(Fired(t)) : t \in BreakTimers}
        \cup {countdownCallback(State) : t \in PendingCountdownTimers(State)}

\* C36.  While isPlaying is false no word-advance timer and no countdown
\* timer is pending, and no timer callback changes currentIndex or
\* specialCountdown.
C36_IdleWithoutTimers ==
    ~isPlaying =>
        /\ PendingWordTimers(State) = {}
        /\ PendingCountdownTimers(State) = {}
        /\ \A r \in CallbackOutcomes :
               /\ r.currentIndex = currentIndex
               /\ r.specialCountdown = specialCountdown

\* pause() from a state in which the timers do not overlap, and
\* jumpToIndex() in Paused+SpecialHeld, leave no timer pending.
C36_PauseAndJumpLeaveNoTimer ==
    /\ isPlaying /\ Cardinality(PendingWordTimers(State)) <= 1 =>
           pause(State).timers = {}
    /\ SpecialHeld /\ timers = {} =>
           \A index \in 0..(Len(items) - 1) : jumpToIndex(State, index).timers = {}

----------------------------------------------------------------------------
(* C37: playback never stalls *)

\* C37.  In every reachable state in which isPlaying is true a word-advance
\* timer (a word interval or the 500ms pause of a ParagraphBreak) or a
\* countdown timer is pending.
C37_PlaybackNeverStalls ==
    isPlaying => PendingWordTimers(State) \cup PendingCountdownTimers(State) # {}

\* A word key pressed outside a Special's countdown keeps the timer that is
\* pending, and no call or callback other than a word key leads from a state
\* that is not stalled to a stalled one.
C37_OnlyWordKeysStall ==
    /\ (isPlaying /\ ~isShowingSpecialContent /\ countdownIntervalId = NULL
            /\ PendingWordTimers(State) # {}) =>
           /\ PendingWordTimers(previousWord(State)) # {}
           /\ PendingWordTimers(nextWord(State)) # {}
    /\ (isPlaying => timers # {}) =>
           \A r \in Outcomes \ {previousWord(State), nextWord(State)} :
               r.isPlaying => r.timers # {}

----------------------------------------------------------------------------
(* C38: the special-content flags and the position *)

\* specialPaused is set only in Paused+SpecialHeld.
HeldFlagConsistent == specialPaused => ~isPlaying /\ isShowingSpecialContent

\* A Special is on show only at a Special.
ShowingAtSpecial ==
    isShowingSpecialContent => ItemAt(items, currentIndex).type = "special"

\* play() takes its resume branch, which leaves the current item without
\* showing it, only at the held Special.
ResumesOnlyAtSpecial ==
    (~isPlaying /\ specialPaused) =>
        /\ ItemAt(items, currentIndex).type = "special"
        /\ isShowingSpecialContent

\* C38.  In every reachable state specialPaused implies that isPlaying is
\* false and isShowingSpecialContent is true, isShowingSpecialContent implies
\* that the item at currentIndex is a Special, and so play() resumes from
\* held only at the held Special.
C38_SpecialFlags ==
    /\ HeldFlagConsistent
    /\ ShowingAtSpecial
    /\ ResumesOnlyAtSpecial

----------------------------------------------------------------------------
(* C39: the direction of the sentence keys *)

\* currentIndex is an index of the list.
InRange == currentIndex >= 0 /\ currentIndex < Len(items)

\* C39.  From every in-range position previousSentence() never raises
\* currentIndex and nextSentence() never lowers it.
C39_Directional ==
    InRange =>
        /\ previousSentence(State).currentIndex <= currentIndex
        /\ nextSentence(State).currentIndex >= currentIndex

\* nextSentence() never lowers an in-range currentIndex, and
\* previousSentence() never raises one that is at or after the first Word.
C39_DirectionalFromFirstWord ==
    InRange =>
        /\ nextSentence(State).currentIndex >= currentIndex
        /\ nextSentence(State).currentIndex < Len(items)
        /\ (\E k \in 0..currentIndex : ItemAt(items, k).type = "word") =>
               previousSentence(State).currentIndex <= currentIndex

----------------------------------------------------------------------------
(* C40: the lists of setText *)

\* The list of r has no stray ParagraphBreak, and every entry of
\* paragraphEnds is the index of a Word of it.
SequenceWellFormed(r) ==
    /\ NoStrayBreaks(r.items)
    /\ \A i \in 1..Len(r.paragraphEnds) :
           ItemAt(r.items, r.paragraphEnds[i]).type = "word"

\* C40.  For every text the items setText produces never start with a
\* ParagraphBreak, never end with one and never hold two in a row, and every
\* entry of paragraphEnds is the index of a Word; so too when a paragraph
\* holds no word.
C40_SetTextWellFormed ==
    \A text \in TextSamples : SequenceWellFormed(setText(State, text))

\* C40 for the texts in which every paragraph holds a word, and for a
\* wordless first paragraph.
C40_ParagraphsWithWords ==
    \A text \in (TextSamples \ WordlessParagraphTexts) \cup {TextHyphenFirst} :
        SequenceWellFormed(setText(State, text))

\* setText('a.\n\n-\n\nb') gives two ParagraphBreaks in a row, and
\* paragraphEnds holds the index of the first of them.
C40_DoubledBreak ==
    LET r == setText(State, TextHyphenMiddle)
    IN /\ Len(r.items) = 4
       /\ r.items[2].type = "paragraph-break"
       /\ r.items[3].type = "paragraph-break"
       /\ r.paragraphEnds = <<0, 1>>

====
